---- MODULE Spec2Model ----
(***************************************************************************)
(* Petal backend: the background task queue (app/services/task_queue.py),  *)
(* the Redis-backed caches (app/services/cache.py) and the capture         *)
(* pipeline (app/routes/memories.py, app/services/sessions.py).            *)
(*                                                                         *)
(* Scheduling model: one asyncio event loop.  A coroutine runs without     *)
(* interruption from one suspending await to the next, so every action     *)
(* below is one such stretch of code.  The Redis, Supabase, Anthropic and  *)
(* OpenAI clients used by the code are synchronous: a call to them never   *)
(* yields to the event loop.                                               *)
(***************************************************************************)
EXTENDS Integers, Sequences, FiniteSets, TLC

\* ------------------------------------------------------------------ bounds
\* Number of tasks the request handlers enqueue in one run of the model.
MaxTasks == 3
\* Largest num_workers a BackgroundTaskQueue is constructed with.
MaxWorkers == 2

VARIABLES
    \* --- application lifecycle (main.py)
    phase,            \* "boot" | "serving" | "shutdown"
    \* --- BackgroundTaskQueue (task_queue.py)
    num_workers,      \* self.num_workers
    is_running,       \* self.is_running
    queue,            \* self.queue: task ids waiting, head first
    unfinished_tasks, \* self.queue._unfinished_tasks, on which join() waits
    workers,          \* self.workers: the worker handles, in spawn order
    wk,               \* worker id -> [st, task, cancel]
    tasks,            \* task id -> "queued"|"running"|"done"|"failed"|"cancelled"
    stopPc,           \* where stop() is: "none"|"joining"|"woken"|"gathering"|"returned"
    gathered,         \* the worker handles stop() passed to asyncio.gather
    atStop,           \* history: the unfinished tasks when stop() was called
    \* --- RedisCache (cache.py)
    enabled,          \* redis_cache.enabled: the ping at construction succeeded
    store,            \* the backend's content: key -> [val, ttl]
    \* --- datastore (table session_memories)
    db,               \* the persisted memory records
    \* --- capture requests (routes/memories.py)
    caps,             \* capture id -> the request's record, see NewCapture
    \* --- session deletion (routes/sessions.py)
    lastInv,          \* history: the last invalidate_session call and what it left
    \* --- environment and observers
    up,               \* the Redis server is reachable
    warm,             \* warm_session_cache tasks created by activate_session, not yet run
    ticks,            \* number of times the clock has been advanced
    obs               \* history: the last call observed from outside and its outcome

queueVars == <<num_workers, is_running, queue, unfinished_tasks, workers, wk,
               tasks, stopPc, gathered, atStop>>

auxVars == <<up, warm, ticks, obs>>

capVars == <<enabled, store, db, caps, lastInv, auxVars>>

vars == <<phase, queueVars, capVars>>

\* ------------------------------------------------------------ helpers
RangeOf(s) == {s[i] : i \in DOMAIN s}

WorkerIds == DOMAIN wk

Completed == {"done", "failed"}

\* Tasks put on the queue and not yet marked done with task_done().
Unfinished == {t \in DOMAIN tasks : tasks[t] \in {"queued", "running"}}

\* ------------------------------------------------- BackgroundTaskQueue
\* __init__: empty queue, no workers, not running.
QueueInit ==
    /\ num_workers \in 1..MaxWorkers
    /\ is_running = FALSE
    /\ queue = <<>>
    /\ unfinished_tasks = 0
    /\ workers = <<>>
    /\ wk = <<>>
    /\ tasks = <<>>
    /\ stopPc = "none"
    /\ gathered = {}
    /\ atStop = {}

\* Mutant of Start: start() without the test of self.is_running.
M_StartNoTest ==
    /\ is_running' = TRUE
    /\ wk' = wk \o [i \in 1..num_workers |->
                       [st |-> "new", task |-> 0, cancel |-> FALSE]]
    /\ workers' = workers \o [i \in 1..num_workers |-> Len(wk) + i]
    /\ UNCHANGED <<num_workers, queue, unfinished_tasks, tasks, stopPc,
                   gathered, atStop>>

\* start(): no-op when running; else spawn num_workers worker tasks.
Start ==
    IF is_running
    THEN UNCHANGED queueVars
    ELSE /\ is_running' = TRUE
         /\ wk' = wk \o [i \in 1..num_workers |->
                            [st |-> "new", task |-> 0, cancel |-> FALSE]]
         /\ workers' = workers \o [i \in 1..num_workers |-> Len(wk) + i]
         /\ UNCHANGED <<num_workers, queue, unfinished_tasks, tasks, stopPc,
                        gathered, atStop>>

\* Mutant of Enqueue: the task record is put at the head of the queue.
M_EnqueueAtHead ==
    /\ Len(tasks) < MaxTasks
    /\ tasks' = Append(tasks, "queued")
    /\ queue' = <<Len(tasks) + 1>> \o queue
    /\ unfinished_tasks' = unfinished_tasks + 1
    /\ UNCHANGED <<num_workers, is_running, workers, wk, stopPc, gathered, atStop>>

\* enqueue(): uuid4 gives an identifier never given before (here the next
\* number); put one task record at the tail; Queue.put counts it unfinished and,
\* the queue having no maxsize, never suspends.
Enqueue ==
    /\ Len(tasks) < MaxTasks
    /\ tasks' = Append(tasks, "queued")
    /\ queue' = Append(queue, Len(tasks) + 1)
    /\ unfinished_tasks' = unfinished_tasks + 1
    /\ UNCHANGED <<num_workers, is_running, workers, wk, stopPc, gathered, atStop>>

\* worker.cancel() for every handle in self.workers; a finished task ignores it.
CancelAll(w) ==
    [i \in DOMAIN w |->
        IF i \in RangeOf(workers) /\ w[i].st # "done"
        THEN [w[i] EXCEPT !.cancel = TRUE]
        ELSE w[i]]

\* Mutant of StopCall: stop() that does not await queue.join() before cancelling.
M_StopCallNoJoin ==
    IF ~is_running
    THEN UNCHANGED queueVars
    ELSE /\ is_running' = FALSE
         /\ atStop' = Unfinished
         /\ wk' = CancelAll(wk)
         /\ gathered' = RangeOf(workers)
         /\ stopPc' = "gathering"
         /\ UNCHANGED <<num_workers, queue, unfinished_tasks, tasks, workers>>

\* stop(): clear is_running, then await queue.join().  join() does not suspend
\* when nothing is unfinished; stop() then goes straight on to cancel the workers
\* and suspends in gather (which is already complete for an empty worker list).
StopCall ==
    IF ~is_running
    THEN UNCHANGED queueVars
    ELSE /\ is_running' = FALSE
         /\ atStop' = Unfinished
         /\ IF unfinished_tasks > 0
            THEN /\ stopPc' = "joining"
                 /\ UNCHANGED <<wk, gathered, workers>>
            ELSE /\ wk' = CancelAll(wk)
                 /\ gathered' = RangeOf(workers)
                 /\ IF workers = <<>>
                    THEN stopPc' = "returned" /\ workers' = <<>>
                    ELSE stopPc' = "gathering" /\ UNCHANGED workers
         /\ UNCHANGED <<num_workers, queue, unfinished_tasks, tasks>>

\* stop() resumes from join(): cancel every worker, await gather(*self.workers).
StopCancel ==
    /\ stopPc = "woken"
    /\ wk' = CancelAll(wk)
    /\ gathered' = RangeOf(workers)
    /\ stopPc' = "gathering"
    /\ UNCHANGED <<capVars, phase, num_workers, is_running, queue, unfinished_tasks, workers,
                   tasks, atStop>>

\* Mutant of StopReturn: stop() that clears self.workers without awaiting gather.
M_StopReturnNoGather ==
    /\ stopPc = "gathering"
    /\ workers' = <<>>
    /\ stopPc' = "returned"
    /\ UNCHANGED <<capVars, phase, num_workers, is_running, queue, unfinished_tasks, wk, tasks,
                   gathered, atStop>>

\* gather completes once every gathered worker has finished; self.workers = [].
StopReturn ==
    /\ stopPc = "gathering"
    /\ \A w \in gathered : wk[w].st = "done"
    /\ workers' = <<>>
    /\ stopPc' = "returned"
    /\ UNCHANGED <<capVars, phase, num_workers, is_running, queue, unfinished_tasks, wk, tasks,
                   gathered, atStop>>

\* Queue.task_done(): one fewer unfinished; reaching zero sets the event a
\* suspended join() waits on, which schedules stop() to resume.
TaskDone ==
    /\ unfinished_tasks' = unfinished_tasks - 1
    /\ stopPc' = IF unfinished_tasks = 1 /\ stopPc = "joining" THEN "woken" ELSE stopPc

\* _worker, first scheduling: `while self.is_running` is tested before anything
\* else; a worker that finds it false leaves at once.
WorkerFirstRun(w) ==
    /\ wk[w].st = "new"
    /\ ~wk[w].cancel
    /\ wk' = [wk EXCEPT ![w].st = IF is_running THEN "idle" ELSE "done"]
    /\ UNCHANGED <<capVars, phase, num_workers, is_running, queue, unfinished_tasks, workers,
                   tasks, stopPc, gathered, atStop>>

\* Mutant of WorkerGet: the worker takes the task put last.
M_WorkerGetLast(w) ==
    /\ wk[w].st = "idle"
    /\ ~wk[w].cancel
    /\ queue # <<>>
    /\ wk' = [wk EXCEPT ![w].st = "busy", ![w].task = queue[Len(queue)]]
    /\ tasks' = [tasks EXCEPT ![queue[Len(queue)]] = "running"]
    /\ queue' = SubSeq(queue, 1, Len(queue) - 1)
    /\ UNCHANGED <<capVars, phase, num_workers, is_running, unfinished_tasks, workers, stopPc,
                   gathered, atStop>>

\* Mutant of WorkerGet: the task is read from the head of the queue, not removed.
M_WorkerGetKeeps(w) ==
    /\ wk[w].st = "idle"
    /\ ~wk[w].cancel
    /\ queue # <<>>
    /\ wk' = [wk EXCEPT ![w].st = "busy", ![w].task = Head(queue)]
    /\ tasks' = [tasks EXCEPT ![Head(queue)] = "running"]
    /\ UNCHANGED <<capVars, phase, num_workers, is_running, queue, unfinished_tasks, workers,
                   stopPc, gathered, atStop>>

\* _worker: queue.get() returns the head of the queue; the task function starts.
WorkerGet(w) ==
    /\ wk[w].st = "idle"
    /\ ~wk[w].cancel
    /\ queue # <<>>
    /\ wk' = [wk EXCEPT ![w].st = "busy", ![w].task = Head(queue)]
    /\ tasks' = [tasks EXCEPT ![Head(queue)] = "running"]
    /\ queue' = Tail(queue)
    /\ UNCHANGED <<capVars, phase, num_workers, is_running, unfinished_tasks, workers, stopPc,
                   gathered, atStop>>

\* Mutant of WorkerTimeout: queue.get() awaited without a timeout; on an empty
\* queue the worker stays where it is.
M_WorkerTimeoutWaits(w) ==
    /\ wk[w].st = "idle"
    /\ ~wk[w].cancel
    /\ queue = <<>>
    /\ UNCHANGED <<capVars, phase, queueVars>>

\* _worker: wait_for(queue.get(), 1.0) times out on an empty queue, `continue`
\* re-tests is_running.
WorkerTimeout(w) ==
    /\ wk[w].st = "idle"
    /\ ~wk[w].cancel
    /\ queue = <<>>
    /\ wk' = [wk EXCEPT ![w].st = IF is_running THEN "idle" ELSE "done"]
    /\ UNCHANGED <<capVars, phase, num_workers, is_running, queue, unfinished_tasks, workers,
                   tasks, stopPc, gathered, atStop>>

\* Mutant of WorkerFinish: an Exception from the task function ends the worker.
M_WorkerFinishCrashes(w, raised) ==
    /\ wk[w].st = "busy"
    /\ ~wk[w].cancel
    /\ tasks' = [tasks EXCEPT ![wk[w].task] = IF raised THEN "failed" ELSE "done"]
    /\ TaskDone
    /\ wk' = [wk EXCEPT ![w].st = IF is_running /\ ~raised THEN "idle" ELSE "done",
                        ![w].task = 0]
    /\ UNCHANGED <<capVars, phase, num_workers, is_running, queue, workers, gathered, atStop>>

\* _worker: the task function returns (raised = FALSE) or raises an Exception,
\* which is caught and logged; finally task_done(); then the loop test.
WorkerFinish(w, raised) ==
    /\ wk[w].st = "busy"
    /\ ~wk[w].cancel
    /\ tasks' = [tasks EXCEPT ![wk[w].task] = IF raised THEN "failed" ELSE "done"]
    /\ TaskDone
    /\ wk' = [wk EXCEPT ![w].st = IF is_running THEN "idle" ELSE "done",
                        ![w].task = 0]
    /\ UNCHANGED <<capVars, phase, num_workers, is_running, queue, workers, gathered, atStop>>

\* Mutant of WorkerCancelled: task_done() after the task function instead of in
\* a finally; a CancelledError in the task function skips it.
M_WorkerCancelledSkipsDone(w) ==
    /\ wk[w].st \in {"new", "idle", "busy"}
    /\ wk[w].cancel
    /\ IF wk[w].st = "busy"
       THEN tasks' = [tasks EXCEPT ![wk[w].task] = "cancelled"]
       ELSE UNCHANGED tasks
    /\ wk' = [wk EXCEPT ![w].st = "done", ![w].task = 0]
    /\ UNCHANGED <<capVars, phase, num_workers, is_running, queue, unfinished_tasks, stopPc,
                   workers, gathered, atStop>>

\* _worker: CancelledError arrives at the suspended await.  In the task function
\* it passes `except Exception`, runs the finally (task_done) and breaks the loop;
\* in queue.get(), or before the first scheduling, the worker just ends.
WorkerCancelled(w) ==
    /\ wk[w].st \in {"new", "idle", "busy"}
    /\ wk[w].cancel
    /\ IF wk[w].st = "busy"
       THEN /\ tasks' = [tasks EXCEPT ![wk[w].task] = "cancelled"]
            /\ TaskDone
       ELSE UNCHANGED <<tasks, unfinished_tasks, stopPc>>
    /\ wk' = [wk EXCEPT ![w].st = "done", ![w].task = 0]
    /\ UNCHANGED <<capVars, phase, num_workers, is_running, queue, workers, gathered, atStop>>

\* ------------------------------------------------------------ RedisCache
\* Strings are sequences of tokens: the separators and the glob wildcard are
\* tokens of their own, so that a glob pattern is matched the way Redis does.
\* Python's None, as a value.
None == "None"

\* No session id.
NoSession == <<>>

\* Session ids are generated by the datastore (create_session inserts no id).
Sessions == {<<"a">>, <<"b">>}
Texts == {"t1", "t2"}
Values == {"v1"}

\* TTLs the code passes to setex.
SessionTtl == 3600
MemoriesTtl == 600
DefaultTtl == 3600
EmbeddingTtl == 86400

\* hashlib.sha256(text).hexdigest(): distinct texts give distinct digests.
Sha256(text) == CASE text = "t1" -> "h1" [] text = "t2" -> "h2"

\* The embedding provider's vector for a text.
Vector(text) == CASE text = "t1" -> "e1" [] text = "t2" -> "e2"

\* claude_service.process_text: the summary of a text.
Summary(text) == CASE text = "t1" -> "p1" [] text = "t2" -> "p2"

SessionKey(sid) == <<"session", ":">> \o sid
SessionMemoriesKey(sid) == SessionKey(sid) \o <<":", "memories">>
SessionDescriptionKey(sid) == SessionKey(sid) \o <<":", "description">>
EmbeddingKey(text) == <<"embed", ":", "v1", ":", Sha256(text)>>

\* Redis KEYS pattern matching: "*" matches any run of tokens, any other token
\* matches itself.
RECURSIVE GlobMatch(_, _)
GlobMatch(p, k) ==
    IF p = <<>> THEN k = <<>>
    ELSE IF Head(p) = "*"
         THEN GlobMatch(Tail(p), k) \/ (k # <<>> /\ GlobMatch(p, Tail(k)))
         ELSE k # <<>> /\ Head(k) = Head(p) /\ GlobMatch(Tail(p), Tail(k))

Without(st, ks) == [k \in DOMAIN st \ ks |-> st[k]]

With(st, key, entry) == [k \in DOMAIN st \cup {key} |-> IF k = key THEN entry ELSE st[k]]

\* Mutant of RedisGet: a backend error leaves the method instead of being caught.
M_RedisGetRaises(st, key, ok) ==
    IF ~enabled THEN None
    ELSE IF ~ok THEN "Exception"
    ELSE IF key \in DOMAIN st /\ st[key].val # "" THEN st[key].val
    ELSE None

\* RedisCache.get: None when disabled, when the backend call raises (ok = FALSE),
\* when the key is missing and when the stored value is falsy (empty).
RedisGet(st, key, ok) ==
    IF ~enabled THEN None
    ELSE IF ~ok THEN None
    ELSE IF key \in DOMAIN st /\ st[key].val # "" THEN st[key].val
    ELSE None

\* Mutant of RedisSet: no test of self.enabled before the backend is called.
M_RedisSetUnguarded(st, key, value, ttl, ok) ==
    IF ~ok THEN [store |-> st, ret |-> FALSE]
    ELSE [store |-> With(st, key, [val |-> value, ttl |-> ttl]), ret |-> TRUE]

\* RedisCache.set: setex(key, ttl, value); False when disabled or on an error.
RedisSet(st, key, value, ttl, ok) ==
    IF ~enabled THEN [store |-> st, ret |-> FALSE]
    ELSE IF ~ok THEN [store |-> st, ret |-> FALSE]
    ELSE [store |-> With(st, key, [val |-> value, ttl |-> ttl]), ret |-> TRUE]

\* Mutant of RedisDelete: reports success without deleting.
M_RedisDeleteKeeps(st, key, ok) ==
    IF ~enabled THEN [store |-> st, ret |-> FALSE]
    ELSE IF ~ok THEN [store |-> st, ret |-> FALSE]
    ELSE [store |-> st, ret |-> TRUE]

\* RedisCache.delete: False when disabled or on an error, which is swallowed.
RedisDelete(st, key, ok) ==
    IF ~enabled THEN [store |-> st, ret |-> FALSE]
    ELSE IF ~ok THEN [store |-> st, ret |-> FALSE]
    ELSE [store |-> Without(st, {key}), ret |-> TRUE]

\* RedisCache.delete_pattern: keys(pattern), then delete(*keys) if any.
RedisDeletePattern(st, pattern, ok) ==
    IF ~enabled THEN [store |-> st, ret |-> FALSE]
    ELSE IF ~ok THEN [store |-> st, ret |-> FALSE]
    ELSE [store |-> Without(st, {k \in DOMAIN st : GlobMatch(pattern, k)}),
          ret |-> TRUE]

\* ---------------------------------------------------------- SessionCache
\* Mutant of GetSessionDescription: a failed backend read is passed on to the
\* route as if it were the cached value.
M_GetSessionDescriptionLeaks(st, sid, ok) ==
    IF enabled /\ ~ok THEN "Exception" ELSE RedisGet(st, SessionDescriptionKey(sid), ok)

\* SessionCache.get_session / get_session_memories / get_session_description.
GetSession(st, sid, ok) == RedisGet(st, SessionKey(sid), ok)
GetSessionMemories(st, sid, ok) == RedisGet(st, SessionMemoriesKey(sid), ok)
GetSessionDescription(st, sid, ok) == RedisGet(st, SessionDescriptionKey(sid), ok)

\* invalidate_session_memories / invalidate_session_description: one delete each,
\* whose result is discarded by the caller.
InvalidateSessionMemories(st, sid, ok) == RedisDelete(st, SessionMemoriesKey(sid), ok)
InvalidateSessionDescription(st, sid, ok) ==
    RedisDelete(st, SessionDescriptionKey(sid), ok)

\* Mutant of InvalidateSession: the pattern delete alone, the metadata key kept.
M_InvalidateSessionPatternOnly(st, sid, okPattern, okKey) ==
    RedisDeletePattern(st, SessionKey(sid) \o <<":", "*">>, okPattern).store

\* invalidate_session: delete_pattern("session:{id}:*"), then delete("session:{id}").
InvalidateSession(st, sid, okPattern, okKey) ==
    RedisDelete(RedisDeletePattern(st, SessionKey(sid) \o <<":", "*">>, okPattern).store,
                SessionKey(sid), okKey).store

\* The kinds of entry of a session that a read on a healthy backend would hit.
Readable(st, sid) ==
    {kind \in {"meta", "mem", "desc"} :
        CASE kind = "meta" -> GetSession(st, sid, TRUE) # None
          [] kind = "mem" -> GetSessionMemories(st, sid, TRUE) # None
          [] kind = "desc" -> GetSessionDescription(st, sid, TRUE) # None}

\* No call observed yet.
NoObs == [op |-> "none"]

\* RedisCache.__init__: enabled exactly when the ping succeeded.
CaptureInit ==
    /\ up \in BOOLEAN
    /\ enabled = up
    /\ store = [k \in {} |-> None]
    /\ db = {}
    /\ caps = <<>>
    /\ lastInv = [sid |-> NoSession]
    /\ warm = {}
    /\ ticks = 0
    /\ obs = NoObs

\* History: entries written for session sid are no leftovers of the last
\* invalidate_session.
Touch(inv, sid, kinds) ==
    IF inv.sid = sid THEN [inv EXCEPT !.stale = @ \ kinds] ELSE inv

\* Mutant of WarmedStore: the memories list is cached for an hour, like the
\* metadata.
M_WarmedStoreOneTtl(st, sid, data, memories, okMeta, okMem) ==
    RedisSet(RedisSet(st, SessionKey(sid), data, SessionTtl, okMeta).store,
             SessionMemoriesKey(sid), memories, SessionTtl, okMem).store

\* What warm_session_cache leaves in the backend: the metadata (1 h) and the
\* memories list (10 min), each set on its own.
WarmedStore(st, sid, data, memories, okMeta, okMem) ==
    RedisSet(RedisSet(st, SessionKey(sid), data, SessionTtl, okMeta).store,
             SessionMemoriesKey(sid), memories, MemoriesTtl, okMem).store

\* warm_session_cache, called with any arguments.
WarmSessionCache(sid, data, memories, okMeta, okMem) ==
    /\ store' = WarmedStore(store, sid, data, memories, okMeta, okMem)
    /\ UNCHANGED <<enabled, db, caps, lastInv, phase, queueVars, auxVars>>

\* What set_session_description does: cache.set without ttl_seconds, so with the
\* default of RedisCache.set.
CacheSessionDescription(st, sid, description, ok) ==
    RedisSet(st, SessionDescriptionKey(sid), description, DefaultTtl, ok)

\* set_session_description, called with any arguments.
SetSessionDescription(sid, description, ok) ==
    /\ store' = CacheSessionDescription(store, sid, description, ok).store
    /\ UNCHANGED <<enabled, db, caps, lastInv, phase, queueVars, auxVars>>

\* delete_session route: delete the session row (its memories cascade); when that
\* raises the request fails with 500 and nothing is invalidated; else
\* session_cache.invalidate_session.
DeleteSessionRoute(sid, dbRaises, okPattern, okKey) ==
    IF dbRaises
    THEN UNCHANGED vars
    ELSE /\ db' = {r \in db : r.sid # sid}
         /\ store' = InvalidateSession(store, sid, okPattern, okKey)
         /\ lastInv' = [sid |-> sid,
                        okPattern |-> enabled /\ okPattern,
                        okKey |-> enabled /\ okKey,
                        before |-> Readable(store, sid),
                        after |-> Readable(store', sid),
                        stale |-> Readable(store', sid)]
         /\ UNCHANGED <<enabled, caps, phase, queueVars, auxVars>>

\* ------------------------------------------------------ capture pipeline
\* Number of capture requests (synchronous and deferred) in one run of the model.
MaxCaptures == 2

\* The session and the text the modelled capture requests are about.
CaptureSessions == {<<"a">>}
CaptureTexts == {"t1"}

\* A capture request: smart_copy ("sync") or the task that smart_copy_async
\* enqueues ("deferred").
\*   pc    "queued" (deferred, not yet run by a worker) | "fanout" | "returned"
\*         | "closed" (the response is delivered, the request is over)
\*   sum   the summarization leg: "pending" | "ok" | "exc"
\*   emb   the embedding leg: "pending" | "ok" | "exc";  vec: its vector
\*   log   the events of this capture, in the order they happened
\*   resp  what the HTTP caller got: "none" | "saved" | "error" | "processing"
\*   task  the deferred task function: "none" | "pending" | "completed" | "logged"
\*         | "raised" (an exception left process_smart_copy_background)
\*   invOk the invalidations whose delete returned True
\*   before the session's entries a healthy read would hit when the handler resumed
\*   atRet the session's entries a healthy read would hit at the moment of return
NewCapture(mode, sid, text) ==
    [mode |-> mode, sid |-> sid, text |-> text,
     pc |-> IF mode = "sync" THEN "fanout" ELSE "queued",
     sum |-> "pending", emb |-> "pending", vec |-> None,
     log |-> <<>>,
     resp |-> IF mode = "sync" THEN "none" ELSE "processing",
     task |-> IF mode = "sync" THEN "none" ELSE "pending",
     invOk |-> {}, before |-> {}, atRet |-> {}]

CaptureIds == DOMAIN caps

\* No handler has just returned: the event loop is free to run something else.
Quiet == \A c \in CaptureIds : caps[c].pc # "returned"

\* smart_copy up to `await asyncio.gather(...)`: both legs are created.
SmartCopy(sid, text) ==
    /\ Len(caps) < MaxCaptures
    /\ caps' = Append(caps, NewCapture("sync", sid, text))
    /\ UNCHANGED <<enabled, store, db, lastInv, phase, queueVars, auxVars>>

\* smart_copy_async: enqueue process_smart_copy_background and answer at once.
SmartCopyAsync(sid, text) ==
    /\ Len(caps) < MaxCaptures
    /\ caps' = Append(caps, NewCapture("deferred", sid, text))
    /\ UNCHANGED <<enabled, store, db, lastInv, phase, queueVars, auxVars>>

\* process_smart_copy_background up to its gather, once a worker runs the task.
BackgroundStart(c) ==
    /\ caps[c].pc = "queued"
    /\ caps' = [caps EXCEPT ![c].pc = "fanout"]
    /\ UNCHANGED <<enabled, store, db, lastInv, phase, queueVars, auxVars>>

\* claude_service.process_text, the first awaitable given to gather: the summary,
\* or an Exception.
SummarizeLeg(c, ok) ==
    /\ caps[c].pc = "fanout"
    /\ caps[c].sum = "pending"
    /\ caps' = [caps EXCEPT ![c].sum = IF ok THEN "ok" ELSE "exc",
                            ![c].log = Append(@, IF ok THEN "sum_ok" ELSE "sum_exc")]
    /\ UNCHANGED <<enabled, store, db, lastInv, phase, queueVars, auxVars>>

\* EmbeddingService.create_embedding, the second awaitable given to gather (the
\* loop runs it after the first): the cached vector if the embedding cache has
\* one; else the provider's, saved to the cache; an Exception if the provider fails.
EmbedLeg(c, okGet, okProvider, okSet) ==
    /\ caps[c].pc = "fanout"
    /\ caps[c].sum # "pending"
    /\ caps[c].emb = "pending"
    /\ LET key == EmbeddingKey(caps[c].text)
           cached == RedisGet(store, key, okGet)
       IN  IF cached # None
           THEN /\ caps' = [caps EXCEPT ![c].emb = "ok", ![c].vec = cached,
                                        ![c].log = Append(@, "emb_ok")]
                /\ UNCHANGED store
           ELSE IF okProvider
           THEN /\ caps' = [caps EXCEPT ![c].emb = "ok",
                                        ![c].vec = Vector(caps[c].text),
                                        ![c].log = Append(@, "emb_ok")]
                /\ store' = RedisSet(store, key, Vector(caps[c].text),
                                     EmbeddingTtl, okSet).store
           ELSE /\ caps' = [caps EXCEPT ![c].emb = "exc",
                                        ![c].log = Append(@, "emb_exc")]
                /\ UNCHANGED store
    /\ UNCHANGED <<enabled, db, lastInv, phase, queueVars, auxVars>>

\* results[0]: the summary, or the Exception object itself: gather was called
\* with return_exceptions=True and results[0] is not tested.
ProcessedText(c) == IF caps[c].sum = "ok" THEN Summary(caps[c].text) ELSE "Exception"

\* Mutant of Embedding: results[1] used without the isinstance test.
M_EmbeddingUnchecked(c) == IF caps[c].emb = "ok" THEN caps[c].vec ELSE "Exception"

\* results[1] if it is no Exception, else None.
Embedding(c) == IF caps[c].emb = "ok" THEN caps[c].vec ELSE None

\* SessionService.save_memory: what insert(data).execute() does: "ok" (the row is
\* returned), "raise", or "norow" (no data in the response).  The client cannot
\* serialise an Exception object, so that insert raises before it is sent.
InsertOutcome(c, outcome) == IF caps[c].sum = "exc" THEN "raise" ELSE outcome

InsertEvent(out) ==
    CASE out = "ok" -> "insert_ok"
      [] out = "raise" -> "insert_raise"
      [] out = "norow" -> "insert_norow"

\* The row save_memory inserts; the embedding column is set only `if embedding`.
MemoryRow(c) ==
    [id |-> c, sid |-> caps[c].sid, original_text |-> caps[c].text,
     processed_text |-> ProcessedText(c), embedding |-> Embedding(c)]

\* Mutant of InvalidateBoth: the description entry is not invalidated.
M_InvalidateBothMemoriesOnly(st, sid, okMem, okDesc) ==
    LET m == InvalidateSessionMemories(st, sid, okMem)
    IN  [store |-> m.store,
         invOk |-> IF m.ret THEN {"mem"} ELSE {},
         log |-> <<"inv_mem", "inv_desc">>]

\* Both invalidations of a capture, in the order the code makes them.
InvalidateBoth(st, sid, okMem, okDesc) ==
    LET m == InvalidateSessionMemories(st, sid, okMem)
        d == InvalidateSessionDescription(m.store, sid, okDesc)
    IN  [store |-> d.store,
         invOk |-> (IF m.ret THEN {"mem"} ELSE {}) \cup (IF d.ret THEN {"desc"} ELSE {}),
         log |-> <<"inv_mem", "inv_desc">>]

\* Mutant of SmartCopyResume: `if not memory: raise` is missing, so a None from
\* save_memory is found only at memory["id"], after both invalidations.
M_SmartCopyResumeNoRowTest(c, outcome, okMem, okDesc) ==
    /\ caps[c].mode = "sync"
    /\ caps[c].pc = "fanout"
    /\ caps[c].sum # "pending" /\ caps[c].emb # "pending"
    /\ LET out == InsertOutcome(c, outcome)
           inv == InvalidateBoth(store, caps[c].sid, okMem, okDesc)
       IN  IF out # "raise"
           THEN /\ db' = IF out = "ok" THEN db \cup {MemoryRow(c)} ELSE db
                /\ store' = inv.store
                /\ caps' = [caps EXCEPT
                       ![c].pc = "returned",
                       ![c].resp = IF out = "ok" THEN "saved" ELSE "error",
                       ![c].invOk = inv.invOk,
                       ![c].before = Readable(store, caps[c].sid),
                       ![c].atRet = Readable(inv.store, caps[c].sid),
                       ![c].log = @ \o <<InsertEvent(out)>> \o inv.log \o <<"return">>]
           ELSE /\ caps' = [caps EXCEPT
                       ![c].pc = "returned", ![c].resp = "error",
                       ![c].before = Readable(store, caps[c].sid),
                       ![c].atRet = Readable(store, caps[c].sid),
                       ![c].log = @ \o <<InsertEvent(out), "return">>]
                /\ UNCHANGED <<db, store>>
    /\ UNCHANGED <<enabled, lastInv, phase, queueVars, auxVars>>

\* smart_copy after the gather: save_memory, then (row returned) both
\* invalidations and the response; an exception or no row gives HTTP 500.
SmartCopyResume(c, outcome, okMem, okDesc) ==
    /\ caps[c].mode = "sync"
    /\ caps[c].pc = "fanout"
    /\ caps[c].sum # "pending" /\ caps[c].emb # "pending"
    /\ LET out == InsertOutcome(c, outcome)
           inv == InvalidateBoth(store, caps[c].sid, okMem, okDesc)
       IN  IF out = "ok"
           THEN /\ db' = db \cup {MemoryRow(c)}
                /\ store' = inv.store
                /\ caps' = [caps EXCEPT
                       ![c].pc = "returned", ![c].resp = "saved",
                       ![c].invOk = inv.invOk,
                       ![c].before = Readable(store, caps[c].sid),
                       ![c].atRet = Readable(inv.store, caps[c].sid),
                       ![c].log = @ \o <<InsertEvent(out)>> \o inv.log \o <<"return">>]
           ELSE /\ caps' = [caps EXCEPT
                       ![c].pc = "returned", ![c].resp = "error",
                       ![c].before = Readable(store, caps[c].sid),
                       ![c].atRet = Readable(store, caps[c].sid),
                       ![c].log = @ \o <<InsertEvent(out), "return">>]
                /\ UNCHANGED <<db, store>>
    /\ UNCHANGED <<enabled, lastInv, phase, queueVars, auxVars>>

\* Mutant of BackgroundResume: the outcome of the task is reported to the caller
\* that enqueued it.
M_BackgroundResumeReports(c, outcome, okMem, okDesc) ==
    /\ caps[c].mode = "deferred"
    /\ caps[c].pc = "fanout"
    /\ caps[c].sum # "pending" /\ caps[c].emb # "pending"
    /\ LET out == InsertOutcome(c, outcome)
           inv == InvalidateBoth(store, caps[c].sid, okMem, okDesc)
       IN  IF out = "raise"
           THEN /\ caps' = [caps EXCEPT
                       ![c].pc = "returned", ![c].task = "logged", ![c].resp = "error",
                       ![c].before = Readable(store, caps[c].sid),
                       ![c].atRet = Readable(store, caps[c].sid),
                       ![c].log = @ \o <<InsertEvent(out), "return">>]
                /\ UNCHANGED <<db, store>>
           ELSE /\ db' = IF out = "ok" THEN db \cup {MemoryRow(c)} ELSE db
                /\ store' = inv.store
                /\ caps' = [caps EXCEPT
                       ![c].pc = "returned",
                       ![c].task = IF out = "ok" THEN "completed" ELSE "logged",
                       ![c].resp = IF out = "ok" THEN "saved" ELSE "error",
                       ![c].invOk = inv.invOk,
                       ![c].before = Readable(store, caps[c].sid),
                       ![c].atRet = Readable(inv.store, caps[c].sid),
                       ![c].log = @ \o <<InsertEvent(out)>> \o inv.log \o <<"return">>]
    /\ UNCHANGED <<enabled, lastInv, phase, queueVars, auxVars>>

\* process_smart_copy_background after the gather: save_memory, both
\* invalidations, then memory['id'] for the log line; whatever is raised is
\* caught and logged.  A None from save_memory is not tested before the
\* invalidations: it fails only at memory['id'].
BackgroundResume(c, outcome, okMem, okDesc) ==
    /\ caps[c].mode = "deferred"
    /\ caps[c].pc = "fanout"
    /\ caps[c].sum # "pending" /\ caps[c].emb # "pending"
    /\ LET out == InsertOutcome(c, outcome)
           inv == InvalidateBoth(store, caps[c].sid, okMem, okDesc)
       IN  IF out = "raise"
           THEN /\ caps' = [caps EXCEPT
                       ![c].pc = "returned", ![c].task = "logged",
                       ![c].before = Readable(store, caps[c].sid),
                       ![c].atRet = Readable(store, caps[c].sid),
                       ![c].log = @ \o <<InsertEvent(out), "return">>]
                /\ UNCHANGED <<db, store>>
           ELSE /\ db' = IF out = "ok" THEN db \cup {MemoryRow(c)} ELSE db
                /\ store' = inv.store
                /\ caps' = [caps EXCEPT
                       ![c].pc = "returned",
                       ![c].task = IF out = "ok" THEN "completed" ELSE "logged",
                       ![c].invOk = inv.invOk,
                       ![c].before = Readable(store, caps[c].sid),
                       ![c].atRet = Readable(inv.store, caps[c].sid),
                       ![c].log = @ \o <<InsertEvent(out)>> \o inv.log \o <<"return">>]
    /\ UNCHANGED <<enabled, lastInv, phase, queueVars, auxVars>>

\* The response of a returned handler is delivered (the worker marks the task
\* done); the request's locals are gone.
Respond(c) ==
    /\ caps[c].pc = "returned"
    /\ caps' = [caps EXCEPT ![c] =
                   [NewCapture(caps[c].mode, caps[c].sid, caps[c].text) EXCEPT
                       !.pc = "closed", !.resp = caps[c].resp, !.task = caps[c].task]]
    /\ UNCHANGED <<enabled, store, db, lastInv, phase, queueVars, auxVars>>

\* Capture requests against the caches as other requests fill them.  A handler
\* that returns hands its response over before the loop runs anything else.
NextCapture ==
    \/ \E sid \in CaptureSessions, text \in CaptureTexts : Quiet /\ SmartCopy(sid, text)
    \/ \E sid \in CaptureSessions, text \in CaptureTexts :
            Quiet /\ SmartCopyAsync(sid, text)
    \/ \E c \in CaptureIds : Quiet /\ BackgroundStart(c)
    \/ \E c \in CaptureIds, ok \in BOOLEAN : Quiet /\ SummarizeLeg(c, ok)
    \/ \E c \in CaptureIds, okGet, okProvider, okSet \in BOOLEAN :
            Quiet /\ EmbedLeg(c, okGet, okProvider, okSet)
    \/ \E c \in CaptureIds, outcome \in {"ok", "raise", "norow"}, okMem, okDesc \in BOOLEAN :
            Quiet /\ SmartCopyResume(c, outcome, okMem, okDesc)
    \/ \E c \in CaptureIds, outcome \in {"ok", "raise", "norow"}, okMem, okDesc \in BOOLEAN :
            Quiet /\ BackgroundResume(c, outcome, okMem, okDesc)
    \/ \E c \in CaptureIds : Respond(c)
    \/ \E sid \in CaptureSessions, data \in Values, memories \in Values,
          okMeta, okMem \in BOOLEAN :
            Quiet /\ WarmSessionCache(sid, data, memories, okMeta, okMem)
    \/ \E sid \in CaptureSessions, description \in Values, ok \in BOOLEAN :
            Quiet /\ SetSessionDescription(sid, description, ok)

\* The cache operations of the session routes on two sessions.
NextCache ==
    \/ \E sid \in Sessions, data \in Values, memories \in Values, okMeta, okMem \in BOOLEAN :
            WarmSessionCache(sid, data, memories, okMeta, okMem)
    \/ \E sid \in Sessions, description \in Values, ok \in BOOLEAN :
            SetSessionDescription(sid, description, ok)
    \/ \E sid \in Sessions, dbRaises, okPattern, okKey \in BOOLEAN :
            DeleteSessionRoute(sid, dbRaises, okPattern, okKey)

\* ------------------------------------------- session routes and observers
\* Number of clock advances in one run of the model.
MaxTicks == 2

\* Number of warm tasks that wait to run at one time.
MaxWarm == 1

\* The clock advances by ten minutes, an hour or a day.
Durations == {600, 3600, 86400}

\* Page sizes of the reads: activate_session, get_session_preview (list shown,
\* list described), smart_paste and get_session_memories (defaults).
WarmLimit == 50
PreviewLimit == 3
DescribeLimit == 20
PasteLimit == 10
ListLimit == 100

SessionRows(sid) == {r \in db : r.sid = sid}

\* .order("created_at").range(0, limit - 1): the first `limit` rows, oldest first;
\* ids grow with the time of insertion.
Page(ids, limit) == {i \in ids : Cardinality({j \in ids : j < i}) < limit}

\* SessionService.get_session_memories(sid, limit): always from the datastore.
MemoryIds(sid, limit) == Page({r.id : r \in SessionRows(sid)}, limit)

\* json.dumps of a list of memories.
Dumps(ids) == ToString(ids)

\* json.loads, the inverse of json.dumps.
Loads(str) == CHOOSE ids \in SUBSET (1..MaxCaptures) : Dumps(ids) = str

\* claude_service.generate_session_description: a text derived from the memories.
Describe(ids) == ToString(<<"description", ids>>)

\* The captures into sid that reported success and whose record is still there.
Captured(sid) ==
    {c \in CaptureIds : /\ caps[c].sid = sid
                        /\ caps[c].resp = "saved" \/ caps[c].task = "completed"
                        /\ \E r \in db : r.id = c}

\* What a route that reads a session's memories has answered.
\* `from` tells where the description shown came from: "row", "cache",
\* "generated", "fixed" (no memories), None (no description in this answer).
ReadObs(op, sid, status, ids, from) ==
    [op |-> op, sid |-> sid, status |-> status, memories |-> ids,
     omitted |-> IF status = "ok" THEN Captured(sid) \ ids ELSE {},
     from |-> from]

\* Redis expiry: after d seconds the keys whose TTL has run out are gone.
Expire(st, d) ==
    [k \in {k1 \in DOMAIN st : st[k1].ttl > d} |-> [st[k] EXCEPT !.ttl = @ - d]]

\* d seconds pass.
Elapse(d) ==
    /\ ticks < MaxTicks
    /\ ticks' = ticks + 1
    /\ store' = Expire(store, d)
    /\ UNCHANGED <<enabled, db, caps, lastInv, phase, queueVars, up, warm, obs>>

\* Mutant of ActivateSessionRoute: the route awaits warm_session_cache before it
\* answers.
M_ActivateSessionRouteAwaits(sid, dbRaises) ==
    IF dbRaises
    THEN UNCHANGED vars
    ELSE /\ store' = WarmedStore(store, sid, "v1", Dumps(MemoryIds(sid, WarmLimit)),
                                 TRUE, TRUE)
         /\ UNCHANGED <<enabled, db, caps, lastInv, phase, queueVars, auxVars>>

\* activate_session: read the session and its first 50 memories, create the warm
\* task (it runs later, see WarmTask) and answer.
ActivateSessionRoute(sid, dbRaises) ==
    IF dbRaises
    THEN UNCHANGED vars
    ELSE /\ Cardinality(warm) < MaxWarm
         /\ warm' = warm \cup {[sid |-> sid, data |-> "v1",
                                memories |-> Dumps(MemoryIds(sid, WarmLimit))]}
         /\ UNCHANGED <<enabled, store, db, caps, lastInv, phase, queueVars, up, ticks, obs>>

\* The task created by activate_session runs warm_session_cache with the data
\* read at activation.
WarmTask(t, okMeta, okMem) ==
    /\ t \in warm
    /\ warm' = warm \ {t}
    /\ store' = WarmedStore(store, t.sid, t.data, t.memories, okMeta, okMem)
    /\ lastInv' = Touch(lastInv, t.sid,
                        {kind \in {"meta", "mem"} :
                            /\ enabled
                            /\ (kind = "meta" => okMeta) /\ (kind = "mem" => okMem)})
    /\ UNCHANGED <<enabled, db, caps, phase, queueVars, up, ticks, obs>>

\* Mutant of PreviewRoute: the shown memories are taken from the memories cache
\* entry when there is one.
M_PreviewRouteCachedList(sid, stored, dbRaises, okGet, okGen, okSet) ==
    IF dbRaises
    THEN /\ obs' = ReadObs("preview", sid, "error", {}, None)
         /\ UNCHANGED <<enabled, store, db, caps, lastInv, phase, queueVars, up, warm, ticks>>
    ELSE LET hit == GetSessionMemories(store, sid, okGet)
             shown == IF hit # None THEN Page(Loads(hit), PreviewLimit)
                      ELSE MemoryIds(sid, PreviewLimit)
         IN  /\ obs' = ReadObs("preview", sid, "ok", shown, "row")
             /\ UNCHANGED <<enabled, store, db, caps, lastInv, phase, queueVars, up, warm,
                            ticks>>

\* get_session_preview: the session row and its first 3 memories come from the
\* datastore; the description is the row's own, else the cached one, else (if
\* there are memories) a generated one, which is then cached.
PreviewRoute(sid, stored, dbRaises, okGet, okGen, okSet) ==
    /\ LET shown == MemoryIds(sid, PreviewLimit)
           cached == GetSessionDescription(store, sid, okGet)
           generated == Describe(MemoryIds(sid, DescribeLimit))
           put == CacheSessionDescription(store, sid, generated, okSet)
       IN  IF dbRaises
           THEN /\ obs' = ReadObs("preview", sid, "error", {}, None)
                /\ UNCHANGED <<store, lastInv>>
           ELSE IF stored # None
           THEN /\ obs' = ReadObs("preview", sid, "ok", shown, "row")
                /\ UNCHANGED <<store, lastInv>>
           ELSE IF cached # None
           THEN /\ obs' = ReadObs("preview", sid, "ok", shown, "cache")
                /\ UNCHANGED <<store, lastInv>>
           ELSE IF shown = {}
           THEN /\ obs' = ReadObs("preview", sid, "ok", shown, "fixed")
                /\ UNCHANGED <<store, lastInv>>
           ELSE IF ~okGen
           THEN /\ obs' = ReadObs("preview", sid, "error", {}, None)
                /\ UNCHANGED <<store, lastInv>>
           ELSE /\ obs' = ReadObs("preview", sid, "ok", shown, "generated")
                /\ store' = put.store
                /\ lastInv' = Touch(lastInv, sid, IF put.ret THEN {"desc"} ELSE {})
    /\ UNCHANGED <<enabled, db, caps, phase, queueVars, up, warm, ticks>>

\* smart_paste without a query: the first 10 memories, from the datastore.
SmartPasteRoute(sid, dbRaises) ==
    /\ obs' = IF dbRaises THEN ReadObs("paste", sid, "error", {}, None)
              ELSE ReadObs("paste", sid, "ok", MemoryIds(sid, PasteLimit), None)
    /\ UNCHANGED <<enabled, store, db, caps, lastInv, phase, queueVars, up, warm, ticks>>

\* get_session_memories route with its default page: from the datastore.
ListMemoriesRoute(sid, dbRaises) ==
    /\ obs' = IF dbRaises THEN ReadObs("list", sid, "error", {}, None)
              ELSE ReadObs("list", sid, "ok", MemoryIds(sid, ListLimit), None)
    /\ UNCHANGED <<enabled, store, db, caps, lastInv, phase, queueVars, up, warm, ticks>>

\* The session a memory id belongs to, NoSession if there is no such record.
SessionOf(id) ==
    IF \E r \in db : r.id = id THEN (CHOOSE r \in db : r.id = id).sid ELSE NoSession

\* delete_memory route: delete the record; no cache entry is touched.
DeleteMemoryRoute(id, dbRaises) ==
    /\ db' = IF dbRaises THEN db ELSE {r \in db : r.id # id}
    /\ obs' = [op |-> "delete_memory", sid |-> SessionOf(id),
               status |-> IF dbRaises THEN "error" ELSE "deleted",
               removed |-> ~dbRaises /\ SessionOf(id) # NoSession,
               after |-> Readable(store, SessionOf(id))]
    /\ UNCHANGED <<enabled, store, caps, lastInv, phase, queueVars, up, warm, ticks>>

\* A caller of SessionCache.get_session / get_session_memories /
\* get_session_description.  A hit is partial when the entry was left behind by
\* the last invalidate_session of the session while that call removed another.
ReadSessionCache(sid, kind, ok) ==
    LET value == CASE kind = "meta" -> GetSession(store, sid, ok)
                   [] kind = "mem" -> GetSessionMemories(store, sid, ok)
                   [] kind = "desc" -> GetSessionDescription(store, sid, ok)
    IN  /\ obs' = [op |-> "cache_read", sid |-> sid, kind |-> kind,
                   hit |-> value # None,
                   partial |-> /\ value # None
                               /\ lastInv.sid = sid
                               /\ kind \in lastInv.stale
                               /\ lastInv.before \ lastInv.after # {}]
        /\ UNCHANGED <<enabled, store, db, caps, lastInv, phase, queueVars, up, warm, ticks>>

\* No handler has just returned and no answer waits to be handed over.
Idle == Quiet /\ obs.op = "none"

\* The answer of the observed call is handed over; the loop goes on.
Deliver ==
    /\ obs.op # "none"
    /\ obs' = NoObs
    /\ UNCHANGED <<enabled, store, db, caps, lastInv, phase, queueVars, up, warm, ticks>>

\* The session routes and the cache's readers on one session, with time passing.
NextSession ==
    \/ \E sid \in CaptureSessions, dbRaises \in BOOLEAN :
            Idle /\ ActivateSessionRoute(sid, dbRaises)
    \/ \E t \in warm, okMeta, okMem \in BOOLEAN : Idle /\ WarmTask(t, okMeta, okMem)
    \/ \E sid \in CaptureSessions, description \in Values, ok \in BOOLEAN :
            Idle /\ SetSessionDescription(sid, description, ok)
    \/ \E sid \in CaptureSessions, dbRaises, okPattern, okKey \in BOOLEAN :
            Idle /\ DeleteSessionRoute(sid, dbRaises, okPattern, okKey)
    \/ \E sid \in CaptureSessions, kind \in {"meta", "mem", "desc"}, ok \in BOOLEAN :
            Idle /\ ReadSessionCache(sid, kind, ok)
    \/ \E d \in Durations : Idle /\ Elapse(d)
    \/ Deliver

\* Captures, deletions and reads of one session's memories.  Summarization and
\* the insert may fail; the embedding leg succeeds (its failures are SpecCapture's).
NextMemories ==
    \/ \E sid \in CaptureSessions, text \in CaptureTexts : Idle /\ SmartCopy(sid, text)
    \/ \E sid \in CaptureSessions, text \in CaptureTexts : Idle /\ SmartCopyAsync(sid, text)
    \/ \E c \in CaptureIds : Idle /\ BackgroundStart(c)
    \/ \E c \in CaptureIds, ok \in BOOLEAN : Idle /\ SummarizeLeg(c, ok)
    \/ \E c \in CaptureIds : Idle /\ EmbedLeg(c, TRUE, TRUE, TRUE)
    \/ \E c \in CaptureIds, outcome \in {"ok", "raise", "norow"}, okMem, okDesc \in BOOLEAN :
            Idle /\ SmartCopyResume(c, outcome, okMem, okDesc)
    \/ \E c \in CaptureIds, outcome \in {"ok", "raise", "norow"}, okMem, okDesc \in BOOLEAN :
            Idle /\ BackgroundResume(c, outcome, okMem, okDesc)
    \/ \E c \in CaptureIds : Respond(c)
    \/ \E sid \in CaptureSessions, dbRaises \in BOOLEAN :
            Idle /\ ActivateSessionRoute(sid, dbRaises)
    \/ \E t \in warm, okMeta, okMem \in BOOLEAN : Idle /\ WarmTask(t, okMeta, okMem)
    \/ \E sid \in CaptureSessions, stored \in {None, "u"},
          dbRaises, okGet, okGen, okSet \in BOOLEAN :
            Idle /\ PreviewRoute(sid, stored, dbRaises, okGet, okGen, okSet)
    \/ \E sid \in CaptureSessions, dbRaises \in BOOLEAN : Idle /\ SmartPasteRoute(sid, dbRaises)
    \/ \E sid \in CaptureSessions, dbRaises \in BOOLEAN :
            Idle /\ ListMemoriesRoute(sid, dbRaises)
    \/ \E id \in 1..MaxCaptures, dbRaises \in BOOLEAN : Idle /\ DeleteMemoryRoute(id, dbRaises)
    \/ Deliver

\* Captures into one session interleaved with previews and activations of it.
\* The deletes of a capture's invalidation are carried out (their failures are
\* SpecCapture's) and the embedding leg succeeds.
NextRace ==
    \/ \E sid \in CaptureSessions, text \in CaptureTexts : Idle /\ SmartCopy(sid, text)
    \/ \E sid \in CaptureSessions, text \in CaptureTexts : Idle /\ SmartCopyAsync(sid, text)
    \/ \E c \in CaptureIds : Idle /\ BackgroundStart(c)
    \/ \E c \in CaptureIds, ok \in BOOLEAN : Idle /\ SummarizeLeg(c, ok)
    \/ \E c \in CaptureIds : Idle /\ EmbedLeg(c, TRUE, TRUE, TRUE)
    \/ \E c \in CaptureIds, outcome \in {"ok", "raise", "norow"} :
            Idle /\ SmartCopyResume(c, outcome, TRUE, TRUE)
    \/ \E c \in CaptureIds, outcome \in {"ok", "raise", "norow"} :
            Idle /\ BackgroundResume(c, outcome, TRUE, TRUE)
    \/ \E c \in CaptureIds : Respond(c)
    \/ \E sid \in CaptureSessions, dbRaises \in BOOLEAN :
            Idle /\ ActivateSessionRoute(sid, dbRaises)
    \/ \E t \in warm, okMeta, okMem \in BOOLEAN : Idle /\ WarmTask(t, okMeta, okMem)
    \/ \E sid \in CaptureSessions, dbRaises, okGet, okGen, okSet \in BOOLEAN :
            Idle /\ PreviewRoute(sid, None, dbRaises, okGet, okGen, okSet)
    \/ Deliver

\* Synchronous captures, previews, smart pastes, activations and deletions of
\* one session while any call to the cache may fail.  The warm task finds the
\* backend failing (its successes are SpecSession's).
NextDegraded ==
    \/ \E sid \in CaptureSessions, text \in CaptureTexts : Idle /\ SmartCopy(sid, text)
    \/ \E c \in CaptureIds, ok \in BOOLEAN : Idle /\ SummarizeLeg(c, ok)
    \/ \E c \in CaptureIds, okGet, okProvider, okSet \in BOOLEAN :
            Idle /\ EmbedLeg(c, okGet, okProvider, okSet)
    \/ \E c \in CaptureIds, outcome \in {"ok", "raise", "norow"}, okMem, okDesc \in BOOLEAN :
            Idle /\ SmartCopyResume(c, outcome, okMem, okDesc)
    \/ \E c \in CaptureIds : Respond(c)
    \/ \E sid \in CaptureSessions, dbRaises \in BOOLEAN :
            Idle /\ ActivateSessionRoute(sid, dbRaises)
    \/ \E t \in warm : Idle /\ WarmTask(t, FALSE, FALSE)
    \/ \E sid \in CaptureSessions, stored \in {None, "u"},
          dbRaises, okGet, okGen, okSet \in BOOLEAN :
            Idle /\ PreviewRoute(sid, stored, dbRaises, okGet, okGen, okSet)
    \/ \E sid \in CaptureSessions, dbRaises \in BOOLEAN : Idle /\ SmartPasteRoute(sid, dbRaises)
    \/ \E sid \in CaptureSessions, dbRaises, okPattern, okKey \in BOOLEAN :
            Idle /\ DeleteSessionRoute(sid, dbRaises, okPattern, okKey)
    \/ Deliver

\* ----------------------------------------- the key-value store, called
\* Keys, patterns and TTLs the store is called with.
StoreKeys ==
    {SessionKey(<<"a">>), SessionMemoriesKey(<<"a">>), SessionDescriptionKey(<<"a">>),
     EmbeddingKey("t1")}
StorePatterns == {SessionKey(<<"a">>) \o <<":", "*">>, <<"*">>}
StoreTtls == {MemoriesTtl, DefaultTtl}

\* str() of what a method returned.
Str(b) == IF b THEN "True" ELSE "False"

\* What a call of the store did, as its caller sees it.  `reached`: the call got
\* past the test of self.enabled; `failed`: it did and the backend call raised.
StoreObs(op, ret, ok) ==
    [op |-> op, ret |-> ret, reached |-> enabled, failed |-> enabled /\ ~(up /\ ok)]

\* Mutant of BackendRecovers: the store reconnects when the server is back.
M_BackendRecoversReconnects ==
    /\ ~up
    /\ up' = TRUE
    /\ enabled' = TRUE
    /\ UNCHANGED <<store, db, caps, lastInv, phase, queueVars, warm, ticks, obs>>

\* The Redis server becomes unreachable, and reachable again.  Nothing in the
\* process reacts: self.enabled is assigned in __init__ only.
BackendFails ==
    /\ up
    /\ up' = FALSE
    /\ UNCHANGED <<enabled, store, db, caps, lastInv, phase, queueVars, warm, ticks, obs>>

BackendRecovers ==
    /\ ~up
    /\ up' = TRUE
    /\ UNCHANGED <<enabled, store, db, caps, lastInv, phase, queueVars, warm, ticks, obs>>

\* redis_cache.get / set / delete / delete_pattern, called directly.  A backend
\* call succeeds only if the server is reachable and answers in time (ok).
CacheGet(key, ok) ==
    /\ obs' = StoreObs("get", RedisGet(store, key, up /\ ok), ok)
    /\ UNCHANGED <<enabled, store, db, caps, lastInv, phase, queueVars, up, warm, ticks>>

CacheSet(key, value, ttl, ok) ==
    /\ store' = RedisSet(store, key, value, ttl, up /\ ok).store
    /\ obs' = StoreObs("set", Str(RedisSet(store, key, value, ttl, up /\ ok).ret), ok)
    /\ UNCHANGED <<enabled, db, caps, lastInv, phase, queueVars, up, warm, ticks>>

CacheDelete(key, ok) ==
    /\ store' = RedisDelete(store, key, up /\ ok).store
    /\ obs' = StoreObs("delete", Str(RedisDelete(store, key, up /\ ok).ret), ok)
    /\ UNCHANGED <<enabled, db, caps, lastInv, phase, queueVars, up, warm, ticks>>

CacheDeletePattern(pattern, ok) ==
    /\ store' = RedisDeletePattern(store, pattern, up /\ ok).store
    /\ obs' = StoreObs("delete_pattern",
                       Str(RedisDeletePattern(store, pattern, up /\ ok).ret), ok)
    /\ UNCHANGED <<enabled, db, caps, lastInv, phase, queueVars, up, warm, ticks>>

\* EmbeddingCache.get_embedding: the cached vector or None; whatever is raised
\* inside is caught and gives None.
GetEmbedding(text, ok) ==
    /\ LET cached == RedisGet(store, EmbeddingKey(text), up /\ ok)
       IN  obs' = StoreObs("get_embedding",
                           IF cached = "Exception" THEN None ELSE cached, ok)
    /\ UNCHANGED <<enabled, store, db, caps, lastInv, phase, queueVars, up, warm, ticks>>

\* EmbeddingCache.save_embedding: set with the 24 h TTL; returns None.
SaveEmbedding(text, ok) ==
    /\ store' = RedisSet(store, EmbeddingKey(text), Vector(text), EmbeddingTtl, up /\ ok).store
    /\ obs' = StoreObs("save_embedding", None, ok)
    /\ UNCHANGED <<enabled, db, caps, lastInv, phase, queueVars, up, warm, ticks>>

\* json.dumps / json.loads of an embedding vector.
EmbeddingJson(v) == ToString(v)
EmbeddingFromJson(str) == CHOOSE v \in {Vector(t) : t \in Texts} : EmbeddingJson(v) = str

\* The embedding request answered last, as the next one finds it: its text, who
\* made it, and whether it was answered with a vector on a working cache.
LastEmbedding ==
    IF obs.op = "create_embedding"
    THEN [text |-> obs.text, sid |-> obs.sid, cached |-> obs.live /\ obs.ret # "Exception"]
    ELSE [text |-> None, sid |-> NoSession, cached |-> FALSE]

\* Mutant of CreateEmbedding: the provider's vector is not saved to the cache.
M_CreateEmbeddingNoSave(sid, text, okGet, okProvider, okSet) ==
    /\ LET key == EmbeddingKey(text)
           cached == RedisGet(store, key, up /\ okGet)
           put == RedisSet(store, key, EmbeddingJson(Vector(text)), EmbeddingTtl,
                           up /\ okSet)
           live == enabled /\ up /\ okGet /\ (cached = None => okSet)
           rec(ret, provider) ==
               [op |-> "create_embedding", sid |-> sid, text |-> text, ret |-> ret,
                provider |-> provider, live |-> live, prev |-> LastEmbedding]
       IN  IF cached # None
           THEN /\ obs' = rec(EmbeddingFromJson(cached), FALSE)
                /\ UNCHANGED store
           ELSE IF okProvider
           THEN /\ obs' = rec(Vector(text), TRUE)
                /\ UNCHANGED store
           ELSE /\ obs' = rec("Exception", TRUE)
                /\ UNCHANGED store
    /\ UNCHANGED <<enabled, db, caps, lastInv, phase, queueVars, up, warm, ticks>>

\* EmbeddingService.create_embedding, on behalf of session sid: the cached vector
\* if get_embedding finds one; else the provider's, which save_embedding caches
\* for 24 h; an Exception if the provider fails.  The key is made of the text alone.
CreateEmbedding(sid, text, okGet, okProvider, okSet) ==
    /\ LET key == EmbeddingKey(text)
           cached == RedisGet(store, key, up /\ okGet)
           put == RedisSet(store, key, EmbeddingJson(Vector(text)), EmbeddingTtl,
                           up /\ okSet)
           live == enabled /\ up /\ okGet /\ (cached = None => okSet)
           rec(ret, provider) ==
               [op |-> "create_embedding", sid |-> sid, text |-> text, ret |-> ret,
                provider |-> provider, live |-> live, prev |-> LastEmbedding]
       IN  IF cached # None
           THEN /\ obs' = rec(EmbeddingFromJson(cached), FALSE)
                /\ UNCHANGED store
           ELSE IF okProvider
           THEN /\ obs' = rec(Vector(text), TRUE)
                /\ store' = put.store
           ELSE /\ obs' = rec("Exception", TRUE)
                /\ UNCHANGED store
    /\ UNCHANGED <<enabled, db, caps, lastInv, phase, queueVars, up, warm, ticks>>

\* Embedding requests of two sessions for two texts, with time passing and the
\* server coming and going.  What is observed is the last request answered.
NextEmbed ==
    \/ \E sid \in Sessions, text \in Texts, okGet, okProvider, okSet \in BOOLEAN :
            CreateEmbedding(sid, text, okGet, okProvider, okSet)
    \/ \E d \in Durations : Elapse(d)
    \/ BackendFails
    \/ BackendRecovers

\* ------------------------------------------------------------ search
\* What a create_embedding call made inside a route does: whether it returned a
\* vector and what it left in the store.
QueryEmbedding(st, text, okGet, okProvider, okSet) ==
    LET cached == RedisGet(st, EmbeddingKey(text), okGet)
    IN  IF cached # None THEN [ok |-> TRUE, store |-> st]
        ELSE IF okProvider
        THEN [ok |-> TRUE,
              store |-> RedisSet(st, EmbeddingKey(text), EmbeddingJson(Vector(text)),
                                 EmbeddingTtl, okSet).store]
        ELSE [ok |-> FALSE, store |-> st]

\* match_session_memories: the rows of the session that have an embedding close
\* enough to the query's (here: the embedding of the same text).
VectorHits(sid, query) ==
    {r.id : r \in {r1 \in SessionRows(sid) : r1.embedding = Vector(query)}}

\* SessionService.search_memories: the rows of the session whose processed text
\* contains a word of the query (here: is the summary of the same text).
TextHits(sid, query) ==
    {r.id : r \in {r1 \in SessionRows(sid) : r1.processed_text = Summary(query)}}

\* What a search has answered: the strategies tried, in order, and the one the
\* results come from (None when the request failed).
SearchObs(op, sid, query, tried, status, from, ids) ==
    [op |-> op, sid |-> sid, query |-> query, tried |-> tried, status |-> status,
     from |-> from, results |-> ids]

\* Mutant of SearchSessionRoute: no fallback; a failure of the vector search
\* fails the request.
M_SearchSessionRouteNoFallback(sid, query, mode, okGet, okProvider, okSet, okVector, okText) ==
    /\ LET emb == QueryEmbedding(store, query, okGet, okProvider, okSet)
       IN  IF mode = "vector"
           THEN /\ store' = emb.store
                /\ obs' = IF emb.ok /\ okVector
                          THEN SearchObs("search", sid, query, <<"vector">>, "ok", "vector",
                                         VectorHits(sid, query))
                          ELSE SearchObs("search", sid, query, <<"vector">>, "error",
                                         None, {})
           ELSE /\ UNCHANGED store
                /\ obs' = IF okText
                          THEN SearchObs("search", sid, query, <<"text">>, "ok", "text",
                                         TextHits(sid, query))
                          ELSE SearchObs("search", sid, query, <<"text">>, "error", None, {})
    /\ UNCHANGED <<enabled, db, caps, lastInv, phase, queueVars, up, warm, ticks>>

\* search_session.  mode "vector": create_embedding, then vector_search_memories;
\* an Exception from either is caught and search_memories is called instead;
\* mode "text": search_memories.  An Exception from search_memories gives 500.
SearchSessionRoute(sid, query, mode, okGet, okProvider, okSet, okVector, okText) ==
    /\ LET emb == QueryEmbedding(store, query, okGet, okProvider, okSet)
       IN  IF mode = "vector"
           THEN /\ store' = emb.store
                /\ obs' = IF emb.ok /\ okVector
                          THEN SearchObs("search", sid, query, <<"vector">>, "ok", "vector",
                                         VectorHits(sid, query))
                          ELSE IF okText
                          THEN SearchObs("search", sid, query, <<"vector", "text">>, "ok",
                                         "text", TextHits(sid, query))
                          ELSE SearchObs("search", sid, query, <<"vector", "text">>, "error",
                                         None, {})
           ELSE /\ UNCHANGED store
                /\ obs' = IF okText
                          THEN SearchObs("search", sid, query, <<"text">>, "ok", "text",
                                         TextHits(sid, query))
                          ELSE SearchObs("search", sid, query, <<"text">>, "error", None, {})
    /\ UNCHANGED <<enabled, db, caps, lastInv, phase, queueVars, up, warm, ticks>>

\* smart_paste with a query: the session row is read first (an Exception gives
\* 500); then create_embedding and vector_search_memories; an Exception from
\* either is caught and get_session_memories, the first `limit` memories, is
\* called instead; an Exception from that gives 500.
SmartPasteQueryRoute(sid, query, dbRaises, okGet, okProvider, okSet, okVector, okRecent) ==
    /\ LET emb == QueryEmbedding(store, query, okGet, okProvider, okSet)
       IN  IF dbRaises
           THEN /\ UNCHANGED store
                /\ obs' = SearchObs("paste", sid, query, <<>>, "error", None, {})
           ELSE /\ store' = emb.store
                /\ obs' = IF emb.ok /\ okVector
                          THEN SearchObs("paste", sid, query, <<"vector">>, "ok", "vector",
                                         VectorHits(sid, query))
                          ELSE IF okRecent
                          THEN SearchObs("paste", sid, query, <<"vector", "recent">>, "ok",
                                         "recent", MemoryIds(sid, PasteLimit))
                          ELSE SearchObs("paste", sid, query, <<"vector", "recent">>,
                                         "error", None, {})
    /\ UNCHANGED <<enabled, db, caps, lastInv, phase, queueVars, up, warm, ticks>>

\* Searches of one session while memories are captured into it, with and without
\* an embedding.  The capture's own embedding leg goes to the provider (its
\* cache is SpecEmbed's); summarization, the insert and the invalidations succeed.
NextSearch ==
    \/ \E sid \in CaptureSessions, text \in CaptureTexts : Idle /\ SmartCopy(sid, text)
    \/ \E c \in CaptureIds : Idle /\ SummarizeLeg(c, TRUE)
    \/ \E c \in CaptureIds, okProvider \in BOOLEAN : Idle /\ EmbedLeg(c, FALSE, okProvider, FALSE)
    \/ \E c \in CaptureIds : Idle /\ SmartCopyResume(c, "ok", TRUE, TRUE)
    \/ \E c \in CaptureIds : Respond(c)
    \/ \E sid \in CaptureSessions, query \in Texts, mode \in {"vector", "text"},
          okGet, okProvider, okSet, okVector, okText \in BOOLEAN :
            Idle /\ SearchSessionRoute(sid, query, mode, okGet, okProvider, okSet,
                                       okVector, okText)
    \/ \E sid \in CaptureSessions, query \in Texts,
          dbRaises, okGet, okProvider, okSet, okVector, okRecent \in BOOLEAN :
            Idle /\ SmartPasteQueryRoute(sid, query, dbRaises, okGet, okProvider, okSet,
                                         okVector, okRecent)
    \/ Deliver

\* Warms of two sessions next to the other writers of the cache: descriptions
\* of the same sessions and embeddings.
NextWarm ==
    \/ \E sid \in Sessions, data \in Values, memories \in Values, okMeta, okMem \in BOOLEAN :
            Idle /\ WarmSessionCache(sid, data, memories, okMeta, okMem)
    \/ \E sid \in Sessions, description \in Values, ok \in BOOLEAN :
            Idle /\ SetSessionDescription(sid, description, ok)
    \/ \E text \in Texts, ok \in BOOLEAN : Idle /\ SaveEmbedding(text, ok)
    \/ Deliver

\* Strings the delete route receives as its path parameter: the ids of the
\* sessions, the glob wildcard, and an id that contains the separator.
PathIds == Sessions \cup {<<"*">>, <<"a", ":", "memories">>}

\* Entries of two sessions and embeddings are cached; the delete route is called
\* with any path parameter.
NextInvalidate ==
    \/ \E sid \in Sessions, data \in Values, memories \in Values, okMeta, okMem \in BOOLEAN :
            Idle /\ WarmSessionCache(sid, data, memories, okMeta, okMem)
    \/ \E sid \in Sessions, description \in Values, ok \in BOOLEAN :
            Idle /\ SetSessionDescription(sid, description, ok)
    \/ \E text \in Texts, ok \in BOOLEAN : Idle /\ SaveEmbedding(text, ok)
    \/ \E sid \in PathIds, dbRaises, okPattern, okKey \in BOOLEAN :
            Idle /\ DeleteSessionRoute(sid, dbRaises, okPattern, okKey)
    \/ Deliver

\* The store and the embedding cache called in any order while the server comes
\* and goes.
NextStore ==
    \/ Idle /\ BackendFails
    \/ Idle /\ BackendRecovers
    \/ \E key \in StoreKeys, ok \in BOOLEAN : Idle /\ CacheGet(key, ok)
    \/ \E key \in StoreKeys, value \in Values, ttl \in StoreTtls, ok \in BOOLEAN :
            Idle /\ CacheSet(key, value, ttl, ok)
    \/ \E key \in StoreKeys, ok \in BOOLEAN : Idle /\ CacheDelete(key, ok)
    \/ \E pattern \in StorePatterns, ok \in BOOLEAN : Idle /\ CacheDeletePattern(pattern, ok)
    \/ \E text \in CaptureTexts, ok \in BOOLEAN : Idle /\ GetEmbedding(text, ok)
    \/ \E text \in CaptureTexts, ok \in BOOLEAN : Idle /\ SaveEmbedding(text, ok)
    \/ Deliver

\* Values set() is called with: any string, the empty one included.
RoundTripValues == {"v1", ""}

\* set, get and delete on the store's keys, with time passing.
NextRoundTrip ==
    \/ \E key \in StoreKeys, value \in RoundTripValues, ttl \in StoreTtls, ok \in BOOLEAN :
            Idle /\ CacheSet(key, value, ttl, ok)
    \/ \E key \in StoreKeys, ok \in BOOLEAN : Idle /\ CacheGet(key, ok)
    \/ \E key \in StoreKeys, ok \in BOOLEAN : Idle /\ CacheDelete(key, ok)
    \/ \E d \in Durations : Idle /\ Elapse(d)
    \/ Deliver

\* ------------------------------------------------ application lifecycle
\* main.py: startup_event starts the queue once; request handlers enqueue while
\* the application serves; shutdown_event, run after request handling has ended,
\* stops the queue.
AppStartup ==
    /\ phase = "boot"
    /\ Start
    /\ phase' = "serving"
    /\ UNCHANGED capVars

RequestEnqueue ==
    /\ phase = "serving"
    /\ Enqueue
    /\ UNCHANGED <<phase, capVars>>

AppShutdown ==
    /\ phase = "serving"
    /\ StopCall
    /\ phase' = "shutdown"
    /\ UNCHANGED capVars

WorkerStep ==
    \E w \in WorkerIds :
        \/ WorkerFirstRun(w)
        \/ WorkerGet(w)
        \/ WorkerTimeout(w)
        \/ \E raised \in BOOLEAN : WorkerFinish(w, raised)
        \/ WorkerCancelled(w)

StopStep == StopCancel \/ StopReturn

NextQueue ==
    \/ AppStartup
    \/ RequestEnqueue
    \/ AppShutdown
    \/ \E w \in WorkerIds : WorkerFirstRun(w)
    \/ \E w \in WorkerIds : WorkerGet(w)
    \/ \E w \in WorkerIds : WorkerTimeout(w)
    \/ \E w \in WorkerIds : \E raised \in BOOLEAN : WorkerFinish(w, raised)
    \/ \E w \in WorkerIds : WorkerCancelled(w)
    \/ StopCancel
    \/ StopReturn

Init ==
    /\ phase = "boot"
    /\ QueueInit
    /\ CaptureInit

SpecQueue == Init /\ [][NextQueue]_vars

\* The task queue as main.py constructs it.
DefaultWorkers == 2

InitDefault == Init /\ num_workers = DefaultWorkers

SpecCapture == InitDefault /\ [][NextCapture]_vars

SpecCache == InitDefault /\ [][NextCache]_vars

SpecSession == InitDefault /\ [][NextSession]_vars

SpecMemories == InitDefault /\ [][NextMemories]_vars

SpecRace == InitDefault /\ [][NextRace]_vars

SpecStore == InitDefault /\ [][NextStore]_vars

SpecSearch == InitDefault /\ [][NextSearch]_vars

SpecInvalidate == InitDefault /\ [][NextInvalidate]_vars

SpecRoundTrip == InitDefault /\ [][NextRoundTrip]_vars

SpecWarm == InitDefault /\ [][NextWarm]_vars

SpecDegraded == InitDefault /\ [][NextDegraded]_vars

SpecEmbed == InitDefault /\ [][NextEmbed]_vars

\* The event loop runs every ready coroutine and fires every timeout; task
\* functions terminate.  The environment (requests, shutdown) is not forced.
FairSpecQueue ==
    /\ SpecQueue
    /\ WF_vars(WorkerStep)
    /\ WF_vars(StopStep)

\* ------------------------------------------------ the queue's methods, called
\* Number of worker loops spawned in one run of the model.
MaxLoops == 4

\* The worker loops that have not ended.
Live == {w \in WorkerIds : wk[w].st # "done"}

\* No stop() is between its first line and its return.
NotStopping == stopPc \in {"none", "returned"}

\* start(), stop() and enqueue() called by any coroutine at any time; a stop()
\* that would run its body is called only when no other stop() is in progress.
ApiStart ==
    /\ Len(wk) + num_workers <= MaxLoops
    /\ Start
    /\ obs' = [op |-> "start", ret |-> None]
    /\ UNCHANGED <<phase, enabled, store, db, caps, lastInv, up, warm, ticks>>

ApiStop ==
    /\ is_running => NotStopping
    /\ StopCall
    /\ obs' = [op |-> "stop", ret |-> None]
    /\ UNCHANGED <<phase, enabled, store, db, caps, lastInv, up, warm, ticks>>

ApiEnqueue ==
    /\ Enqueue
    /\ obs' = [op |-> "enqueue", ret |-> ToString(Len(tasks) + 1)]
    /\ UNCHANGED <<phase, enabled, store, db, caps, lastInv, up, warm, ticks>>

NextQueueApi ==
    \/ Idle /\ ApiStart
    \/ Idle /\ ApiStop
    \/ Idle /\ ApiEnqueue
    \/ \E w \in WorkerIds : Idle /\ WorkerFirstRun(w)
    \/ \E w \in WorkerIds : Idle /\ WorkerGet(w)
    \/ \E w \in WorkerIds : Idle /\ WorkerTimeout(w)
    \/ \E w \in WorkerIds : \E raised \in BOOLEAN : Idle /\ WorkerFinish(w, raised)
    \/ \E w \in WorkerIds : Idle /\ WorkerCancelled(w)
    \/ Idle /\ StopCancel
    \/ Idle /\ StopReturn
    \/ Deliver

SpecQueueApi == Init /\ [][NextQueueApi]_vars

\* The same, with start() called only when no stop() is in progress: the caller
\* of stop() has its answer before anyone starts the queue again.
SeqStart == NotStopping /\ ApiStart

NextQueueSeq ==
    \/ Idle /\ SeqStart
    \/ Idle /\ ApiStop
    \/ Idle /\ ApiEnqueue
    \/ \E w \in WorkerIds : Idle /\ WorkerFirstRun(w)
    \/ \E w \in WorkerIds : Idle /\ WorkerGet(w)
    \/ \E w \in WorkerIds : Idle /\ WorkerTimeout(w)
    \/ \E w \in WorkerIds : \E raised \in BOOLEAN : Idle /\ WorkerFinish(w, raised)
    \/ \E w \in WorkerIds : Idle /\ WorkerCancelled(w)
    \/ Idle /\ StopCancel
    \/ Idle /\ StopReturn
    \/ Deliver

SpecQueueSeq == Init /\ [][NextQueueSeq]_vars

\* ============================================================ claims
\* stop() is waiting in join() although no worker is left to take a task.
StopStuck ==
    /\ stopPc = "joining"
    /\ queue # <<>>
    /\ \A w \in WorkerIds : wk[w].st = "done"

\* C2: every task that was enqueued before stop() was called, waiting ones
\* included, is eventually executed to completion by a worker.
C2_StopDrainsQueue ==
    \A t \in 1..MaxTasks :
        (t \in atStop) ~> (t \in DOMAIN tasks /\ tasks[t] \in Completed)

\* C2, the failing case reached: a task that waited in the queue when stop() was
\* called is still waiting after every worker has left its loop.
C2_WaitingTaskAbandoned ==
    /\ StopStuck
    /\ \E t \in atStop : tasks[t] = "queued"

\* C3: with more tasks queued than workers, stop() eventually returns.
C3_StopTerminates ==
    (stopPc = "joining" /\ Cardinality(atStop) > num_workers) ~> (stopPc = "returned")

\* C3, the failing case reached: more tasks than workers at stop(), every task run
\* so far has ended, and stop() can no longer resume.
C3_StopHangs ==
    /\ StopStuck
    /\ Cardinality(atStop) > num_workers
    /\ \A t \in DOMAIN tasks : tasks[t] # "running"

\* C4: in every state where stop() has returned, no task waits in the queue and
\* no task is being executed.
C4_StopReturnsDrained ==
    stopPc = "returned" =>
        /\ queue = <<>>
        /\ unfinished_tasks = 0
        /\ \A w \in WorkerIds : wk[w].st # "busy"
        /\ \A t \in DOMAIN tasks : tasks[t] \notin {"queued", "running"}

\* C4 witness: stop() returned after it had to wait for unfinished tasks.
C4_Witness ==
    /\ stopPc = "returned"
    /\ atStop # {}
    /\ \A t \in atStop : tasks[t] \in Completed

\* C5: after stop() has returned every worker spawned by start() has ended and
\* self.workers is empty.
C5_NoWorkerAfterStop ==
    stopPc = "returned" =>
        /\ workers = <<>>
        /\ \A w \in WorkerIds : wk[w].st = "done"

\* C5 witness: stop() returned, having cancelled and awaited a worker.
C5_Witness ==
    /\ stopPc = "returned"
    /\ \E w \in WorkerIds : wk[w].cancel
    /\ Len(wk) = num_workers

\* ---- task queue, workers
\* The workers holding task t.
Holders(t) == {w \in WorkerIds : wk[w].task = t}

\* C19: an exception raised by a task function stops at the worker: while the
\* queue runs, the worker that ran the task is back waiting for the next one,
\* and no other worker, no other task and nothing in the queue is touched.
C19_TaskExceptionContained ==
    [][\A t \in DOMAIN tasks :
          (tasks[t] = "running" /\ tasks'[t] = "failed") =>
              /\ \A w \in Holders(t) : is_running => wk'[w].st = "idle"
              /\ \A w \in WorkerIds \ Holders(t) : wk'[w] = wk[w]
              /\ \A u \in DOMAIN tasks \ {t} : tasks'[u] = tasks[u]
              /\ queue' = queue
              /\ workers' = workers /\ is_running' = is_running]_vars

\* C19 witness: the only worker ran a task that raised and has claimed the next one.
C19_Witness ==
    /\ num_workers = 1 /\ is_running
    /\ \E t \in DOMAIN tasks : tasks[t] = "failed"
    /\ \E t \in DOMAIN tasks : tasks[t] = "running" /\ Holders(t) # {}

\* C20: no task is duplicated: a task waits in the queue at most once and only
\* until it is claimed, a running task is held by exactly one worker, and a task
\* that was claimed is never queued or started again, whether it raised or not.
C20_NoTaskDuplicated ==
    /\ [](\A t \in DOMAIN tasks :
            /\ Cardinality({i \in DOMAIN queue : queue[i] = t})
                   = IF tasks[t] = "queued" THEN 1 ELSE 0
            /\ Cardinality(Holders(t)) = IF tasks[t] = "running" THEN 1 ELSE 0)
    /\ [][\A t \in DOMAIN tasks :
            /\ tasks[t] # "queued" => tasks'[t] # "queued"
            /\ tasks[t] \notin {"queued", "running"} => tasks'[t] = tasks[t]
            /\ tasks[t] = "running" /\ tasks'[t] = "running" => Holders(t)' = Holders(t)]_vars

\* C20 witness: two workers run two different tasks after an earlier task raised.
C20_Witness ==
    /\ \E t \in DOMAIN tasks : tasks[t] = "failed"
    /\ \E w1, w2 \in WorkerIds :
          /\ w1 # w2
          /\ wk[w1].st = "busy" /\ wk[w2].st = "busy"
          /\ wk[w1].task # wk[w2].task

\* ---- capture pipeline
Events(c) == RangeOf(caps[c].log)

\* The place of event e in the log of capture c, 0 when it did not happen.
Pos(c, e) ==
    IF e \in Events(c)
    THEN CHOOSE i \in DOMAIN caps[c].log : caps[c].log[i] = e
    ELSE 0

InsertEvents == {"insert_ok", "insert_raise", "insert_norow"}

Returned(c, mode) == caps[c].mode = mode /\ caps[c].pc = "returned"

\* C1: when a successful synchronous capture returns, the session's memories
\* and description entries are both absent from the cache.
C1_AbsentAtReturn ==
    \A c \in CaptureIds :
        (Returned(c, "sync") /\ caps[c].resp = "saved") =>
            caps[c].atRet \cap {"mem", "desc"} = {}

\* C1 as amended: when a successful synchronous capture returns, both
\* invalidations have been made, memories first, and each entry whose delete the
\* backend carried out is absent; with the cache disabled both read as absent.
C1_DeletedAbsentAtReturn ==
    \A c \in CaptureIds :
        (Returned(c, "sync") /\ caps[c].resp = "saved") =>
            /\ 0 < Pos(c, "inv_mem") /\ Pos(c, "inv_mem") < Pos(c, "inv_desc")
            /\ caps[c].atRet \cap caps[c].invOk = {}
            /\ ~enabled => caps[c].atRet = {}

\* C1 witness: both entries were populated, both deletes succeeded, and the
\* capture returned success with both absent.
C1_Witness ==
    \E c \in CaptureIds :
        /\ Returned(c, "sync") /\ caps[c].resp = "saved"
        /\ {"mem", "desc"} \subseteq caps[c].before
        /\ caps[c].invOk = {"mem", "desc"}
        /\ caps[c].atRet \cap {"mem", "desc"} = {}

\* C6: if summarization fails in a synchronous capture, the call fails, the
\* datastore insert is never attempted, no record is persisted and neither
\* cache entry is invalidated.
C6_SummarizeFailureStopsCapture ==
    \A c \in CaptureIds :
        (Returned(c, "sync") /\ caps[c].sum = "exc") =>
            /\ caps[c].resp = "error"
            /\ Events(c) \cap InsertEvents = {}
            /\ \A r \in db : r.id # c
            /\ Events(c) \cap {"inv_mem", "inv_desc"} = {}

\* C6, the failing case reached: summarization failed and save_memory ran its
\* insert with the Exception object as processed_text.
C6_InsertAttempted ==
    \E c \in CaptureIds :
        /\ Returned(c, "sync") /\ caps[c].sum = "exc"
        /\ "insert_raise" \in Events(c)

\* C7: if the embedding fails while summarization and the insert succeed, the
\* synchronous capture returns success, the persisted row has the processed text
\* and no embedding, and both invalidations are made.
C7_EmbeddingFailureTolerated ==
    \A c \in CaptureIds :
        (Returned(c, "sync") /\ caps[c].sum = "ok" /\ caps[c].emb = "exc"
            /\ "insert_ok" \in Events(c)) =>
            /\ caps[c].resp = "saved"
            /\ \E r \in db : /\ r.id = c
                             /\ r.processed_text = Summary(caps[c].text)
                             /\ r.embedding = None
            /\ \A r \in db : r.id = c => r.embedding = None
            /\ {"inv_mem", "inv_desc"} \subseteq Events(c)

\* C7 witness: a synchronous capture whose embedding leg failed returned success.
C7_Witness ==
    \E c \in CaptureIds :
        /\ Returned(c, "sync") /\ caps[c].emb = "exc"
        /\ caps[c].resp = "saved"

\* C8: if the insert raises or returns no row, the synchronous capture returns a
\* failure without invalidating anything, and the deferred capture logs the
\* failure: nothing is raised to the worker, the enqueuer's answer stays as it was.
C8_PersistenceFailure ==
    \A c \in CaptureIds :
        (caps[c].pc = "returned" /\ Events(c) \cap {"insert_raise", "insert_norow"} # {}) =>
            /\ caps[c].mode = "sync" =>
                   /\ caps[c].resp = "error"
                   /\ Events(c) \cap {"inv_mem", "inv_desc"} = {}
                   /\ caps[c].atRet = caps[c].before
            /\ caps[c].mode = "deferred" =>
                   /\ caps[c].task = "logged"
                   /\ caps[c].resp = "processing"
            /\ \A r \in db : r.id # c

\* C8 witness: a synchronous capture was answered with a failure, and a deferred
\* one whose insert returned no row has just ended.
C8_Witness ==
    /\ \E c \in CaptureIds :
          caps[c].mode = "sync" /\ caps[c].pc = "closed" /\ caps[c].resp = "error"
    /\ \E c \in CaptureIds :
          Returned(c, "deferred") /\ "insert_norow" \in Events(c)

\* C9: in every capture both legs finish before the record is persisted, the
\* record is persisted before the memories entry is invalidated, that before the
\* description entry, and the call returns last; no invalidation without the
\* record persisted before it.
C9_CaptureEventOrder ==
    \A c \in CaptureIds :
        caps[c].pc = "returned" =>
            /\ \A e \in Events(c) \cap InsertEvents :
                   /\ Events(c) \cap {"sum_ok", "sum_exc"} # {}
                   /\ Events(c) \cap {"emb_ok", "emb_exc"} # {}
                   /\ \A l \in {"sum_ok", "sum_exc", "emb_ok", "emb_exc"} :
                          Pos(c, l) < Pos(c, e)
            /\ "inv_mem" \in Events(c) =>
                   0 < Pos(c, "insert_ok") /\ Pos(c, "insert_ok") < Pos(c, "inv_mem")
            /\ "inv_desc" \in Events(c) =>
                   0 < Pos(c, "inv_mem") /\ Pos(c, "inv_mem") < Pos(c, "inv_desc")
            /\ Pos(c, "return") = Len(caps[c].log)

\* C9, the failing case reached: a deferred capture invalidated both entries
\* although its insert returned no row.
C9_InvalidatedWithoutRecord ==
    \E c \in CaptureIds :
        /\ Returned(c, "deferred")
        /\ "insert_norow" \in Events(c)
        /\ {"inv_mem", "inv_desc"} \subseteq Events(c)

\* ---- session cache
Invalidated == lastInv.sid # NoSession

\* C10: after invalidate_session(sid) has returned, the session's metadata,
\* memories and description all read as absent.
C10_InvalidateAllClears == Invalidated => lastInv.after = {}

\* C10 as amended: after invalidate_session(sid) has returned, memories and
\* description read as absent if the pattern delete was carried out, metadata if
\* the key delete was; with the cache disabled all three read as absent.
C10_InvalidateAllClearsDeleted ==
    Invalidated =>
        /\ lastInv.okPattern => lastInv.after \cap {"mem", "desc"} = {}
        /\ lastInv.okKey => "meta" \notin lastInv.after
        /\ ~enabled => lastInv.after = {}

\* C10 witness: all three entries were populated and both deletes succeeded.
C10_Witness ==
    /\ Invalidated
    /\ lastInv.before = {"meta", "mem", "desc"}
    /\ lastInv.okPattern /\ lastInv.okKey
    /\ lastInv.after = {}

\* ---- session cache, observers and time
\* C11: invalidate_session is atomic for observers: no reader of the session
\* cache gets a hit on an entry of a session that the last invalidate_session of
\* that session left behind while it removed another entry of the same session.
C11_NoPartialHit == obs.op = "cache_read" => ~obs.partial

\* C11, the failing case reached: one of the two deletes of invalidate_session
\* failed, and a reader then hit the entry it left behind.
C11_PartialHit ==
    /\ obs.op = "cache_read" /\ obs.partial
    /\ lastInv.okPattern # lastInv.okKey

\* C13: a cached session description has no expiry: the passing of time alone,
\* however long, never turns a description entry that reads as a hit into a miss.
C13_DescriptionNeverExpires ==
    [][ticks' # ticks =>
          \A sid \in CaptureSessions :
              "desc" \in Readable(store, sid) => "desc" \in Readable(store', sid)]_vars

\* C13, the failing case reached: a description entry is in the cache with the
\* one-hour default TTL of RedisCache.set.
C13_DescriptionHasTtl ==
    \E sid \in CaptureSessions :
        /\ SessionDescriptionKey(sid) \in DOMAIN store
        /\ store[SessionDescriptionKey(sid)].ttl = DefaultTtl

\* ---- reads and removals of memories
MemoryReads == {"list", "paste", "preview"}

\* The page size of a reading route.
LimitOf(op) ==
    CASE op = "list" -> ListLimit [] op = "paste" -> PasteLimit [] op = "preview" -> PreviewLimit

\* The rows being the same, the memories a cache entry of the session lists.
CachedIds(sid) == Loads(store[SessionMemoriesKey(sid)].val)

\* C12: once a capture into a session has reported success, no read of the
\* session's memories (list, smart paste, preview) answers with a list that
\* leaves the captured memory out: what is answered is the datastore's page,
\* whatever the memories cache holds.
C12_ReadsSeeCapturedMemories ==
    (obs.op \in MemoryReads /\ obs.status = "ok") =>
        /\ obs.omitted = {}
        /\ obs.memories = MemoryIds(obs.sid, LimitOf(obs.op))

\* C12 witness: a read answered with the captured memory while the session's
\* memories cache entry still held a list without it.
C12_Witness ==
    /\ obs.op \in MemoryReads /\ obs.status = "ok"
    /\ Captured(obs.sid) # {}
    /\ Captured(obs.sid) \subseteq obs.memories
    /\ "mem" \in Readable(store, obs.sid)
    /\ ~(Captured(obs.sid) \subseteq CachedIds(obs.sid))

\* C14: when an operation that removed a memory record (delete memory) or added
\* one (a capture) returns, the session's memories cache entry is absent.
C14_MemoriesAbsentAfterChange ==
    /\ (obs.op = "delete_memory" /\ obs.removed) => "mem" \notin obs.after
    /\ \A c \in CaptureIds :
          (caps[c].pc = "returned" /\ "insert_ok" \in Events(c)) => "mem" \notin caps[c].atRet

\* C14, the failing case reached: delete_memory removed a record and returned
\* while the memories cache entry of its session, which lists it, is still there.
C14_EntryLeftAfterDelete ==
    /\ obs.op = "delete_memory" /\ obs.removed
    /\ "mem" \in obs.after
    /\ ~(CachedIds(obs.sid) \subseteq {r.id : r \in SessionRows(obs.sid)})

\* C15: when an operation that changed the set of memories of a session (sync
\* capture, deferred capture, delete memory) has completed, the session's cached
\* description is absent.
C15_DescriptionAbsentAfterChange ==
    /\ (obs.op = "delete_memory" /\ obs.removed) => "desc" \notin obs.after
    /\ \A c \in CaptureIds :
          (caps[c].pc = "returned" /\ "insert_ok" \in Events(c)) => "desc" \notin caps[c].atRet

\* C15, the failing case reached: delete_memory removed a record and returned
\* while the cached description, generated from memories that include it, stays.
C15_DescriptionLeftAfterDelete ==
    /\ obs.op = "delete_memory" /\ obs.removed
    /\ "desc" \in obs.after
    /\ \E ids \in SUBSET (1..MaxCaptures) :
          /\ store[SessionDescriptionKey(obs.sid)].val = Describe(ids)
          /\ ~(ids \subseteq {r.id : r \in SessionRows(obs.sid)})

\* ---- the key-value store under failure
StoreOps == {"get", "set", "delete", "delete_pattern"}

\* What a method answers when it does nothing: absent for the reads, False for
\* the writes of the store; save_embedding answers None anyway.
Fallback(op) == IF op \in {"get", "get_embedding", "save_embedding"} THEN None ELSE "False"

\* C16: with the backend unreachable at startup, every later call of the store
\* completes without raising: get answers absent, set, delete and
\* delete_pattern answer False, for every key and pattern.
C16_DisabledStoreAnswers ==
    (~enabled /\ obs.op \in StoreOps) => obs.ret = Fallback(obs.op)

\* C16 witness: the store, disabled at startup, is asked to set a key when the
\* server is reachable again and would take it; it answers False.
C16_Witness ==
    /\ ~enabled /\ up
    /\ obs.op = "set" /\ obs.ret = "False" /\ ~obs.failed

\* C17: a store whose initial ping failed stays disabled: no call and no
\* recovery of the backend enables it, and no call reaches the backend or
\* changes what it holds.
C17_DisabledForever ==
    [][~enabled =>
          /\ ~enabled'
          /\ store' = store
          /\ obs'.op \in StoreOps \cup {"get_embedding", "save_embedding"} => ~obs'.reached]_vars

\* C17 witness: the backend is back, the store is still disabled, and a call
\* has just returned without reaching the backend.
C17_Witness ==
    /\ ~enabled /\ up
    /\ obs.op \in StoreOps /\ ~obs.reached
    /\ DOMAIN store = {}

\* C18: when the store is enabled and one backend call fails, the call answers
\* absent (get) or False (set, delete, delete_pattern), nothing is raised to
\* the caller nor to the callers of the caches built on the store, and the
\* store stays enabled.
C18_FailedCallContained ==
    (obs.op \in StoreOps \cup {"get_embedding", "save_embedding"} /\ obs.failed) =>
        /\ obs.ret = Fallback(obs.op)
        /\ enabled

\* C18 witness: a get of a key the backend holds failed and answered absent.
C18_Witness ==
    /\ obs.op = "get" /\ obs.failed /\ obs.ret = None
    /\ store # << >> /\ enabled

\* ---- the queue's methods
\* The step in which a call of the named method is made and answered.
Called(op) == obs.op = "none" /\ obs'.op = op

\* C21: each enqueue() appends exactly one task record to the tail of the queue
\* and returns that record's identifier, which no earlier record has; it does so
\* in one step, whatever the workers do, and touches no worker and no other task.
C21_EnqueueAppendsOneFresh ==
    [][Called("enqueue") =>
          \E id \in DOMAIN tasks' \ DOMAIN tasks :
              /\ obs'.ret = ToString(id)
              /\ DOMAIN tasks' = DOMAIN tasks \cup {id}
              /\ tasks'[id] = "queued"
              /\ queue' = Append(queue, id)
              /\ \A u \in DOMAIN tasks : tasks'[u] = tasks[u]
              /\ wk' = wk /\ is_running' = is_running /\ stopPc' = stopPc]_vars

\* C21 witness: enqueue() has returned on a queue that was never started and
\* already held a task: nobody claims anything, the record is at the tail.
C21_Witness ==
    /\ obs.op = "enqueue"
    /\ ~is_running /\ WorkerIds = {}
    /\ Len(queue) >= 2
    /\ obs.ret = ToString(queue[Len(queue)])

\* C22: tasks are claimed in enqueue order: a task is never claimed while a task
\* enqueued before it still waits, and the waiting tasks stand in enqueue order.
C22_ClaimedInEnqueueOrder ==
    /\ \A a, b \in DOMAIN tasks : (a < b /\ tasks[b] # "queued") => tasks[a] # "queued"
    /\ \A i, j \in DOMAIN queue : i < j => queue[i] < queue[j]

\* C22 witness: the later of two tasks has completed while the earlier one,
\* claimed first, is still being executed.
C22_Witness ==
    \E a, b \in DOMAIN tasks :
        a < b /\ tasks[a] = "running" /\ tasks[b] \in Completed

\* C23: start() on a stopped queue (not running, no stop() in progress) finds no
\* worker loop alive and leaves the queue running with exactly num_workers new
\* loops; start() on a running queue and stop() on a queue that is not running
\* change nothing; a worker holds at most one task, which is running.
C23_StartStopStateMachine ==
    /\ []((~is_running /\ NotStopping) => Live = {})
    /\ [](\A w \in WorkerIds :
             IF wk[w].st = "busy"
             THEN wk[w].task \in DOMAIN tasks /\ tasks[wk[w].task] = "running"
             ELSE wk[w].task = 0)
    /\ [][/\ (Called("start") /\ ~is_running) =>
                 /\ is_running'
                 /\ Cardinality(Live') = num_workers
                 /\ Live' = DOMAIN wk' \ DOMAIN wk
                 /\ queue' = queue /\ tasks' = tasks
          /\ (Called("start") /\ is_running) => UNCHANGED queueVars
          /\ (Called("stop") /\ ~is_running) => UNCHANGED queueVars]_vars

\* C23 witness: a queue that was started and stopped has been started again and
\* runs with num_workers loops.
C23_Witness ==
    /\ obs.op = "start"
    /\ is_running /\ stopPc = "returned"
    /\ Cardinality(Live) = num_workers
    /\ Len(wk) > num_workers

\* ---- the two capture paths
\* The invalidations a capture made.
Invalidations(c) == Events(c) \cap {"inv_mem", "inv_desc"}

\* C24: the deferred capture does what the synchronous one does: in either
\* path, for the same outcomes of summarization, embedding and insert, a row is
\* written exactly when the insert returned it, with the same content, and both
\* invalidations are made exactly then, none otherwise.
C24_DeferredSameAsSync ==
    \A c \in CaptureIds :
        caps[c].pc = "returned" =>
            /\ (\E r \in db : r.id = c) <=> "insert_ok" \in Events(c)
            /\ \A r \in db : r.id = c => r = MemoryRow(c)
            /\ Invalidations(c) =
                   IF "insert_ok" \in Events(c) THEN {"inv_mem", "inv_desc"} ELSE {}

\* C24, the failing case reached: the insert returned no row; the deferred
\* capture removed the session's cached memories and description, which the
\* synchronous capture leaves in place on that outcome.
C24_DeferredClearsCacheWithoutRow ==
    \E c \in CaptureIds :
        /\ Returned(c, "deferred")
        /\ "insert_norow" \in Events(c)
        /\ {"mem", "desc"} \subseteq caps[c].before
        /\ caps[c].atRet \cap {"mem", "desc"} = {}

\* The same statement for the synchronous path alone.
SyncCaptureEffects ==
    \A c \in CaptureIds :
        Returned(c, "sync") =>
            /\ (\E r \in db : r.id = c) <=> "insert_ok" \in Events(c)
            /\ Invalidations(c) =
                   IF "insert_ok" \in Events(c) THEN {"inv_mem", "inv_desc"} ELSE {}

\* C25: a deferred capture request is answered when its task is enqueued, before
\* the task has run, and the answer is the same ("processing") whatever becomes
\* of the task: completed, failed or never run; it never changes afterwards.
C25_DeferredAnswerFixed ==
    /\ [](\A c \in CaptureIds : caps[c].mode = "deferred" => caps[c].resp = "processing")
    /\ [][\A c \in DOMAIN caps' \ DOMAIN caps :
            caps'[c].mode = "deferred" =>
                /\ caps'[c].resp = "processing"
                /\ caps'[c].pc = "queued" /\ caps'[c].task = "pending"
                /\ caps'[c].log = <<>> /\ db' = db /\ store' = store]_vars

\* C25 witness: of two deferred captures one has failed and is over, the other
\* has not been run; both callers hold the same answer.
C25_Witness ==
    \E c, d \in CaptureIds :
        /\ caps[c].mode = "deferred" /\ caps[d].mode = "deferred"
        /\ caps[c].pc = "closed" /\ caps[c].task = "logged"
        /\ caps[d].pc = "queued" /\ caps[d].task = "pending"
        /\ caps[c].resp = "processing" /\ caps[d].resp = "processing"

\* ---- the embedding cache
\* C26: of two successive embedding requests for the same text on a working
\* cache, whoever makes them, only the first invokes the provider: an answered
\* request leaves the vector cached under the text's key, a request that finds
\* it there returns it without invoking the provider and writes nothing, and
\* nothing but the passing of its 24 hours removes or changes the entry.
C26_SecondRequestFromCache ==
    [][/\ (obs' # obs /\ obs'.op = "create_embedding" /\ obs'.live) =>
              LET key == EmbeddingKey(obs'.text)
              IN  /\ obs'.ret # "Exception" =>
                         /\ key \in DOMAIN store'
                         /\ EmbeddingFromJson(store'[key].val) = Vector(obs'.text)
                         /\ key \notin DOMAIN store => store'[key].ttl = EmbeddingTtl
                  /\ (key \in DOMAIN store /\ obs'.prev.text = obs'.text
                          /\ obs'.prev.cached) =>
                         /\ ~obs'.provider
                         /\ obs'.ret = Vector(obs'.text)
                         /\ store' = store
                  /\ key \notin DOMAIN store => obs'.provider
         /\ \A text \in Texts :
                (EmbeddingKey(text) \in DOMAIN store /\ ~obs'.op = "create_embedding"
                                                   /\ store' # store) =>
                    /\ ticks' = ticks + 1
                    /\ \E d \in Durations : store' = Expire(store, d)]_vars

\* C26 witness: a request of one session was answered from the cache, without
\* the provider, right after a request of the other session for the same text
\* on a working cache; the entry has aged in between or before.
C26_Witness ==
    /\ obs.op = "create_embedding" /\ obs.live
    /\ ~obs.provider /\ obs.ret = Vector(obs.text)
    /\ obs.prev.text = obs.text /\ obs.prev.cached /\ obs.prev.sid # obs.sid
    /\ EmbeddingKey(obs.text) \in DOMAIN store
    /\ store[EmbeddingKey(obs.text)].ttl < EmbeddingTtl

\* ---- reads and the cache
\* C27: reads are cache-aside.  A read of a session's memories (list, smart
\* paste, preview) that finds the memories entry cached does not need the
\* datastore, so a datastore failure cannot fail it; one that misses on a
\* working cache and is answered leaves the entry repopulated.  A preview whose
\* description is generated leaves it cached whenever it wrote to the cache.
C27_ReadsAreCacheAside ==
    [][\A op \in MemoryReads :
          Called(op) =>
              /\ "mem" \in Readable(store, obs'.sid) => obs'.status = "ok"
              /\ (enabled /\ obs'.status = "ok" /\ "mem" \notin Readable(store, obs'.sid)) =>
                     "mem" \in Readable(store', obs'.sid)
              /\ (obs'.from = "generated" /\ store' # store) =>
                     "desc" \in Readable(store', obs'.sid)]_vars

\* C27, the failing case reached: on a working cache without a memories entry,
\* smart paste was answered with the session's memories from the datastore and
\* the entry is still absent.
C27_MissNotRepopulated ==
    /\ obs.op = "paste" /\ obs.status = "ok"
    /\ enabled
    /\ obs.memories # {}
    /\ "mem" \notin Readable(store, obs.sid)

\* ---- requests on a failing cache
\* What get_session_preview answers with caching turned off: the row's own
\* description, else the fixed text for a session without memories, else a
\* generated one; a failure when the datastore or the generator fails.
PreviewOff(sid, stored, dbRaises, okGen) ==
    LET shown == MemoryIds(sid, PreviewLimit)
    IN  IF dbRaises THEN ReadObs("preview", sid, "error", {}, None)
        ELSE IF stored # None THEN ReadObs("preview", sid, "ok", shown, "row")
        ELSE IF shown = {} THEN ReadObs("preview", sid, "ok", shown, "fixed")
        ELSE IF ~okGen THEN ReadObs("preview", sid, "error", {}, None)
        ELSE ReadObs("preview", sid, "ok", shown, "generated")

C29_WarmFireAndForget ==
    [][/\ warm' # warm /\ warm \subseteq warm' =>
              /\ Cardinality(warm' \ warm) = 1
              /\ store' = store
              /\ db' = db /\ caps' = caps /\ obs' = obs
       /\ warm' # warm /\ warm' \subseteq warm =>
              /\ Cardinality(warm \ warm') = 1
              /\ db' = db /\ caps' = caps /\ obs' = obs
              /\ enabled' = enabled /\ up' = up
              /\ ~enabled => store' = store
       /\ \A sid \in CaptureSessions : \A key \in {SessionKey(sid), SessionMemoriesKey(sid)} :
              (/\ key \in DOMAIN store'
               /\ key \in DOMAIN store => store'[key].ttl > store[key].ttl) =>
                  warm' # warm /\ warm' \subseteq warm]_vars

\* C29 witness: with the cache disabled, the activate request has returned; its
\* warm task waits to run and nothing is cached.
C29_Witness ==
    /\ ~enabled
    /\ warm # {}
    /\ DOMAIN store = {}

\* The entries of st2 that differ from st1, and those missing from it.
Changed(st1, st2) ==
    {k \in DOMAIN st1 \cup DOMAIN st2 :
        ~(k \in DOMAIN st1 /\ k \in DOMAIN st2 /\ st1[k] = st2[k])}

\* C30: warm(sid, metadata, memories) writes exactly two entries, session:{sid}
\* for 3600 s and session:{sid}:memories for 600 s, and changes no other entry.
C30_WarmWritesTwo ==
    [][\A sid \in Sessions, data \in Values, memories \in Values, okMeta, okMem \in BOOLEAN :
          WarmSessionCache(sid, data, memories, okMeta, okMem) =>
              /\ Changed(store, store') \subseteq {SessionKey(sid), SessionMemoriesKey(sid)}
              /\ SessionKey(sid) \in DOMAIN store'
              /\ store'[SessionKey(sid)] = [val |-> data, ttl |-> SessionTtl]
              /\ SessionMemoriesKey(sid) \in DOMAIN store'
              /\ store'[SessionMemoriesKey(sid)] = [val |-> memories, ttl |-> MemoriesTtl]]_vars

\* C30 as amended: warm changes no entry but session:{sid} and
\* session:{sid}:memories; it writes the first for 3600 s if the store is enabled
\* and that set is carried out, the second for 600 s likewise, each on its own;
\* an entry whose set is not carried out stays as it was.
C30_WarmWritesItsTwoOnly ==
    [][\A sid \in Sessions, data \in Values, memories \in Values, okMeta, okMem \in BOOLEAN :
          WarmSessionCache(sid, data, memories, okMeta, okMem) =>
              /\ Changed(store, store') \subseteq {SessionKey(sid), SessionMemoriesKey(sid)}
              /\ IF enabled /\ okMeta
                 THEN /\ SessionKey(sid) \in DOMAIN store'
                      /\ store'[SessionKey(sid)] = [val |-> data, ttl |-> SessionTtl]
                 ELSE SessionKey(sid) \notin Changed(store, store')
              /\ IF enabled /\ okMem
                 THEN /\ SessionMemoriesKey(sid) \in DOMAIN store'
                      /\ store'[SessionMemoriesKey(sid)] =
                             [val |-> memories, ttl |-> MemoriesTtl]
                 ELSE SessionMemoriesKey(sid) \notin Changed(store, store')]_vars

\* C30 witness: a session is warmed, both entries with their TTLs, next to its
\* own description, an entry of the other session and an embedding.
C30_Witness ==
    \E sid \in Sessions :
        /\ SessionKey(sid) \in DOMAIN store /\ store[SessionKey(sid)].ttl = SessionTtl
        /\ SessionMemoriesKey(sid) \in DOMAIN store
        /\ store[SessionMemoriesKey(sid)].ttl = MemoriesTtl
        /\ SessionDescriptionKey(sid) \in DOMAIN store
        /\ \E other \in Sessions \ {sid} : SessionDescriptionKey(other) \in DOMAIN store
        /\ \E other \in Sessions \ {sid} : SessionKey(other) \notin DOMAIN store
        /\ \E text \in Texts : EmbeddingKey(text) \in DOMAIN store

\* ---- the stop signal
\* C32: once is_running is false every worker loop ends, and it ends by its own
\* loop test, not by cancellation: a worker that has not been cancelled can
\* always take its next step; that step ends it if it was not yet scheduled, if
\* its wait on an empty queue times out (one timeout, never a second wait) or if
\* its task ends; the only other step is to claim a task that is waiting.
C32_WorkersLeaveLoop ==
    /\ \A w \in 1..MaxWorkers :
           (w \in WorkerIds /\ ~is_running) ~> (w \in WorkerIds /\ wk[w].st = "done")
    /\ [](\A w \in WorkerIds :
             (~is_running /\ wk[w].st # "done" /\ ~wk[w].cancel) =>
                 \/ wk[w].st = "new" /\ ENABLED (WorkerFirstRun(w) /\ wk'[w].st = "done")
                 \/ /\ wk[w].st = "idle" /\ queue = <<>>
                    /\ ENABLED (WorkerTimeout(w) /\ wk'[w].st = "done")
                 \/ /\ wk[w].st = "idle" /\ queue # <<>>
                    /\ ENABLED (WorkerGet(w) /\ wk'[w].st = "busy")
                 \/ /\ wk[w].st = "busy"
                    /\ \A raised \in BOOLEAN :
                           ENABLED (WorkerFinish(w, raised) /\ wk'[w].st = "done"))
    /\ [][\A w \in WorkerIds :
             (~is_running /\ ~wk'[w].cancel /\ wk'[w] # wk[w]) =>
                 \/ wk'[w].st = "done"
                 \/ wk[w].st = "idle" /\ queue # <<>> /\ wk'[w].st = "busy"]_vars

\* C32 witness: stop() is still waiting in join(), no worker has been cancelled,
\* and every worker has left its loop, one of them after a task it ran to the end.
C32_Witness ==
    /\ ~is_running /\ stopPc = "joining"
    /\ WorkerIds # {}
    /\ \A w \in WorkerIds : wk[w].st = "done" /\ ~wk[w].cancel
    /\ \E t \in DOMAIN tasks : tasks[t] \in Completed /\ t \in atStop

\* ---- start() while stop() is in progress
\* C35: whenever is_running is true exactly num_workers worker loops are alive,
\* whatever the order in which start(), stop() and enqueue() are called.
C35_RunningHasItsWorkers ==
    is_running => Cardinality(Live) = num_workers

\* C35, the failing case reached: start() was called while stop() waited in
\* join(); stop() has since cancelled and awaited the new workers with the old
\* ones and returned: the queue is running, has a task waiting and no worker.
C35_RunningWithoutWorkers ==
    /\ is_running
    /\ stopPc = "returned"
    /\ Live = {}
    /\ workers = <<>>
    /\ queue # <<>>

\* C35, the other failing case: start() during the join() spawned num_workers
\* loops next to loops of the first start() that are still running their tasks.
C35_TooManyWorkers ==
    /\ is_running
    /\ Cardinality(Live) > num_workers
    /\ Len(workers) > num_workers

\* With start() called only when no stop() is in progress the invariant holds.
C35_SequentialCallsKeepWorkers ==
    ~is_running \/ Cardinality(Live) = num_workers

\* ---- the unfinished-task counter
\* The workers executing a task function.
Busy == {w \in WorkerIds : wk[w].st = "busy"}

\* C38: the counter join() waits on equals the number of tasks waiting in the
\* queue plus the number being executed; it goes down by one exactly when a
\* running task ends, by return, exception or cancellation of its worker, and a
\* task that has ended never ends again.
C38_UnfinishedCounter ==
    /\ [](unfinished_tasks = Len(queue) + Cardinality(Busy))
    /\ [](\A w \in Busy : wk[w].task \in DOMAIN tasks /\ tasks[wk[w].task] = "running")
    /\ [][/\ \A t \in DOMAIN tasks :
                (tasks[t] = "running" /\ tasks'[t] # "running") =>
                    /\ tasks'[t] \in {"done", "failed", "cancelled"}
                    /\ unfinished_tasks' = unfinished_tasks - 1
          /\ \A t \in DOMAIN tasks :
                tasks[t] \in {"done", "failed", "cancelled"} => tasks'[t] = tasks[t]
          /\ unfinished_tasks' < unfinished_tasks =>
                \E t \in DOMAIN tasks : tasks[t] = "running" /\ tasks'[t] # "running"]_vars

\* C38 witness: one task returned, one raised, one was running when its worker
\* was cancelled; all three are counted done and nothing is left unfinished.
C38_Witness ==
    /\ unfinished_tasks = 0
    /\ \E t \in DOMAIN tasks : tasks[t] = "done"
    /\ \E t \in DOMAIN tasks : tasks[t] = "failed"
    /\ \E t \in DOMAIN tasks : tasks[t] = "cancelled"

\* ---- set, then get
\* C37: a set(k, v, ttl) that returns True stores v under k, and a get(k) on an
\* enabled, healthy backend returns the value stored under k as long as the
\* entry is there (not expired, not deleted), for every string v, the empty
\* string included.
C37_SetGetRoundTrip ==
    /\ [][\A key \in StoreKeys, value \in RoundTripValues, ttl \in StoreTtls, ok \in BOOLEAN :
             (CacheSet(key, value, ttl, ok) /\ obs'.ret = "True") =>
                 /\ key \in DOMAIN store'
                 /\ store'[key] = [val |-> value, ttl |-> ttl]]_vars
    /\ [][\A key \in StoreKeys :
             (CacheGet(key, TRUE) /\ enabled /\ up /\ key \in DOMAIN store) =>
                 obs'.ret = store[key].val]_vars

\* C37, the failing case reached: every key holds an entry, one of them the
\* empty string, and a get that reached a healthy backend has answered None.
C37_EmptyValueReadAsAbsent ==
    /\ DOMAIN store = StoreKeys
    /\ \E key \in StoreKeys : store[key].val = ""
    /\ obs.op = "get" /\ obs.reached /\ ~obs.failed
    /\ obs.ret = None

\* For a value that is not empty the round trip holds.
C37_NonEmptyRoundTrip ==
    [][\A key \in StoreKeys :
          (/\ CacheGet(key, TRUE) /\ enabled /\ up
           /\ key \in DOMAIN store /\ store[key].val # "") =>
              obs'.ret = store[key].val]_vars

\* ---- invalidate_session and the other sessions
\* The three cache keys of a session.
KeysOf(sid) == {SessionKey(sid), SessionMemoriesKey(sid), SessionDescriptionKey(sid)}

\* C36: invalidate_session(s) changes no entry of another session and no
\* embedding entry, whatever string s is, glob metacharacters and the separator
\* included.
C36_InvalidateTouchesOneSession ==
    [][\A sid \in PathIds, dbRaises, okPattern, okKey \in BOOLEAN :
          DeleteSessionRoute(sid, dbRaises, okPattern, okKey) =>
              /\ \A other \in Sessions \ {sid} :
                     KeysOf(other) \cap Changed(store, store') = {}
              /\ \A text \in Texts : EmbeddingKey(text) \notin Changed(store, store')]_vars

\* C36, the failing case reached: invalidate_session("*") has run with both of
\* its deletes carried out; the memories and description entries of both
\* sessions are gone, their metadata and the embeddings are still cached.
C36_WildcardClearedAllSessions ==
    /\ lastInv.sid = <<"*">>
    /\ lastInv.okPattern /\ lastInv.okKey
    /\ \A sid \in Sessions :
           KeysOf(sid) \cap DOMAIN store = {SessionKey(sid)}
    /\ \A text \in Texts : EmbeddingKey(text) \in DOMAIN store

\* With the id of a session, which the datastore generates, the frame holds.
C36_SessionIdsTouchOneSession ==
    [][\A sid \in Sessions, dbRaises, okPattern, okKey \in BOOLEAN :
          DeleteSessionRoute(sid, dbRaises, okPattern, okKey) =>
              Changed(store, store') \subseteq KeysOf(sid)]_vars

\* ---- reads racing with a capture
\* The memory sets a cached description of sid may have been generated from.
DescribedFrom(sid) ==
    {ids \in SUBSET (1..MaxCaptures) :
        /\ SessionDescriptionKey(sid) \in DOMAIN store
        /\ store[SessionDescriptionKey(sid)].val = Describe(ids)}

CachedMemories(sid) == Loads(store[SessionMemoriesKey(sid)].val)

\* C34: however an activation and a capture into the same session interleave,
\* once the capture has completed and no warm task is left to run, the memories
\* entry of the session is absent or contains the captured memory.
C34_WarmNeverReinstallsOldList ==
    \A sid \in CaptureSessions : \A c \in Captured(sid) :
        (warm = {} /\ SessionMemoriesKey(sid) \in DOMAIN store) =>
            c \in CachedMemories(sid)

\* C34, the failing case reached: the capture has answered with its record
\* saved, the warm task has run after it, and the cached list is the one read
\* before the insert.
C34_OldListCachedAfterCapture ==
    \E sid \in CaptureSessions : \E c \in Captured(sid) :
        /\ warm = {}
        /\ caps[c].pc = "closed"
        /\ SessionMemoriesKey(sid) \in DOMAIN store
        /\ c \notin CachedMemories(sid)
        /\ CachedMemories(sid) = Captured(sid) \ {c}

\* ---- search fallback
\* The answer o is that of a chain of two strategies: the first is tried; if it
\* succeeded its hits are returned; else the second is tried and its hits are
\* returned; the request fails only if the second failed too.
FallbackChain(o, okFirst, okSecond, second, firstHits, secondHits) ==
    /\ okFirst =>
           /\ o.tried = <<"vector">> /\ o.status = "ok"
           /\ o.from = "vector" /\ o.results = firstHits
    /\ (~okFirst /\ okSecond) =>
           /\ o.tried = <<"vector", second>> /\ o.status = "ok"
           /\ o.from = second /\ o.results = secondHits
    /\ (~okFirst /\ ~okSecond) =>
           /\ o.tried = <<"vector", second>> /\ o.status = "error"

\* create_embedding for the query returns a vector: from the cache or the provider.
QueryEmbedded(query, okGet, okProvider) ==
    RedisGet(store, EmbeddingKey(query), okGet) # None \/ okProvider

\* C31: every vector search of the routes (search_session in mode "vector",
\* smart_paste with a query) tries the embedding and the vector similarity
\* first, falls back to the keyword text search if either fails and returns its
\* result, and fails only if the text search fails too.
C31_VectorSearchFallsBackToKeyword ==
    [][\A sid \in CaptureSessions, query \in Texts,
          okGet, okProvider, okSet, okVector, okLast \in BOOLEAN :
          (\/ SearchSessionRoute(sid, query, "vector", okGet, okProvider, okSet, okVector,
                                 okLast)
           \/ SmartPasteQueryRoute(sid, query, FALSE, okGet, okProvider, okSet, okVector,
                                   okLast)) =>
              FallbackChain(obs', QueryEmbedded(query, okGet, okProvider) /\ okVector, okLast,
                            "text", VectorHits(sid, query), TextHits(sid, query))]_vars

\* C31 as amended: search_session in mode "vector" follows that chain, with the
\* keyword text search second; smart_paste with a query follows the same chain
\* with the session's first memories (get_session_memories) second, not the
\* text search; neither changes the datastore.
C31_SearchFallbackChains ==
    [][\A sid \in CaptureSessions, query \in Texts,
          okGet, okProvider, okSet, okVector, okLast \in BOOLEAN :
          /\ SearchSessionRoute(sid, query, "vector", okGet, okProvider, okSet, okVector,
                                okLast) =>
                 /\ FallbackChain(obs', QueryEmbedded(query, okGet, okProvider) /\ okVector,
                                  okLast, "text", VectorHits(sid, query),
                                  TextHits(sid, query))
                 /\ db' = db
          /\ SmartPasteQueryRoute(sid, query, FALSE, okGet, okProvider, okSet, okVector,
                                  okLast) =>
                 /\ FallbackChain(obs', QueryEmbedded(query, okGet, okProvider) /\ okVector,
                                  okLast, "recent", VectorHits(sid, query),
                                  MemoryIds(sid, PasteLimit))
                 /\ db' = db]_vars

\* C31 witness: a search in mode "vector" fell back to the text search and
\* answered with a memory that has no embedding, which the vector search could
\* not have returned.
C31_Witness ==
    /\ obs.op = "search"
    /\ obs.tried = <<"vector", "text">>
    /\ obs.status = "ok"
    /\ obs.results # {}
    /\ obs.results # VectorHits(obs.sid, obs.query)

====
